---- MODULE Spec2Model ----
(***************************************************************************)
(* Ground-station optimizer: the MILP formulation engine of gsopt.         *)
(*                                                                         *)
(* The state is the optimizer object (MilpOptimizer / GroundStationOpti-   *)
(* mizer): its catalog (providers, stations, satellites, contacts), the    *)
(* optimization window, the node maps, the registered constraint          *)
(* components with the linear constraints each has generated, the          *)
(* objective block, the optimizer's own (linking) constraint list, the     *)
(* bookkeeping counters and flags, and the value of every decision         *)
(* variable as the external solver last wrote it back.                     *)
(*                                                                         *)
(* A linear constraint is kept as data (terms, relation, terms), so that   *)
(* "every assignment that satisfies the emitted constraints" is something  *)
(* the model evaluates.  The external solver is a black box: it returns    *)
(* some assignment that satisfies every constraint of the model (any one   *)
(* of them, the optimum being one), or reports the model infeasible, or    *)
(* fails with an ApplicationError.                                         *)
(*                                                                         *)
(* Times are integers (seconds on a coarse grid); identifiers of           *)
(* stations, satellites and contacts are small integers, identifiers and   *)
(* names of providers are strings.                                         *)
(***************************************************************************)
EXTENDS Integers, Sequences, FiniteSets, TLC

VARIABLES
    providers,                \* GroundStationOptimizer.providers  (dict, insertion order)
    stations,                 \* GroundStationOptimizer.stations   (dict, insertion order)
    satellites,               \* GroundStationOptimizer.satellites (dict, insertion order)
    contacts,                 \* GroundStationOptimizer.contacts   (dict, insertion order)
    opt_window,               \* OptimizationWindow (sim_start, sim_end)
    obj_block,                \* MilpOptimizer.obj_block
    provider_nodes,           \* MilpOptimizer.provider_nodes   (keys, insertion order)
    station_nodes,            \* MilpOptimizer.station_nodes
    contact_nodes,            \* MilpOptimizer.contact_nodes
    satellite_nodes,          \* MilpOptimizer.satellite_nodes
    station_satellite_nodes,  \* MilpOptimizer.station_satellite_nodes (keys)
    constraint_blocks,        \* MilpOptimizer.constraint_blocks
    constraints,              \* MilpOptimizer.constraints (the linking constraints)
    n_vars,                   \* MilpOptimizer.n_vars
    n_constraints,            \* MilpOptimizer.n_constraints
    problem_initialized,      \* MilpOptimizer._problem_initialized
    objective_set,            \* MilpOptimizer._objective_set
    solution,                 \* MilpOptimizer.solution.solver.termination_condition, None
                              \* while the attribute is unset
    solver_status,            \* GroundStationOptimizer.solver_status
    var_value,                \* the value of each decision variable of the model
    solver_calls,             \* how many times the external solver was invoked
    generations,              \* how many times generate_problem ran
    raised                    \* the exception the last call raised, or "none"

vars == <<providers, stations, satellites, contacts, opt_window, obj_block,
          provider_nodes, station_nodes, contact_nodes, satellite_nodes,
          station_satellite_nodes, constraint_blocks, constraints, n_vars,
          n_constraints, problem_initialized, objective_set, solution,
          solver_status, var_value, solver_calls, generations, raised>>

catalog_vars == <<providers, stations, satellites, contacts, opt_window>>

(***************************************************************************)
(* Bounds of the model.                                                    *)
(***************************************************************************)
MaxT == 4            \* times range over 0..MaxT
MaxContacts == 3     \* contacts in a catalog
MaxAntennas == 2     \* antennas of a station
MaxRate == 2         \* data rate of a contact
MaxValue == 3        \* threshold parameter of a constraint component
MaxGenerations == 1  \* runs of generate_problem on one optimizer
MaxBlocks == 1       \* constraint components added to one optimizer
MaxSolves == 1       \* invocations of the external solver on one optimizer
MaxStep == 2         \* step of a sliding-window component
MaxResolveContacts == 1  \* contacts in a catalog on which longer call sequences run

Times == 0..MaxT

(***************************************************************************)
(* Python helpers: sorted (stable), itertools.groupby, itertools.          *)
(* combinations, filter.  A key is the name of the field compared.         *)
(***************************************************************************)
\* the element of a one-element set: The({e(x) : x \in {v}}) is e(v), with v
\* evaluated once
The(S) == CHOOSE x \in S : TRUE

\* Python's order on the provider identifiers (strings)
StrOrder == <<"Azure", "P1", "azure", "ksat", "p1", "p2">>
Rank(str) == CHOOSE i \in 1..Len(StrOrder) : StrOrder[i] = str

\* the order of str(n) among the decimal strings of the integers 0..99
StrKey(n) == IF n < 10 THEN 100 * n ELSE 100 * (n \div 10) + (n % 10) + 1

\* the sort key of x: its field key (an integer), a provider id (a string, by its
\* rank), or str() of an integer field
KeyOf(x, key) ==
    CASE key = "provider_id" -> Rank(x[key])
      [] key = "str(satellite_id)" -> StrKey(x["satellite_id"])
      [] key = "str(station_id)" -> StrKey(x["station_id"])
      [] OTHER -> x[key]

\* sorted(s, key=lambda x: x.key): stable, ascending
SortBy(s, key) ==
    [k \in 1..Len(s) |->
        s[CHOOSE i \in 1..Len(s) :
            k = 1 + Cardinality({j \in 1..Len(s) :
                        \/ KeyOf(s[j], key) < KeyOf(s[i], key)
                        \/ (KeyOf(s[j], key) = KeyOf(s[i], key) /\ j < i)})]]

\* the indices at which a run of equal keys starts
RunStarts(s, key) == {i \in 1..Len(s) : i = 1 \/ s[i][key] # s[i - 1][key]}

\* itertools.groupby(s, lambda x: x.key): the maximal runs of consecutive elements of
\* equal key, in order
GroupBy(s, key) ==
    [k \in 1..Cardinality(RunStarts(s, key)) |->
        SubSeq(s,
               CHOOSE i \in RunStarts(s, key) :
                   Cardinality({j \in RunStarts(s, key) : j < i}) = k - 1,
               IF k = Cardinality(RunStarts(s, key)) THEN Len(s)
               ELSE (CHOOSE i \in RunStarts(s, key) :
                        Cardinality({j \in RunStarts(s, key) : j < i}) = k) - 1)]

RECURSIVE Combinations(_, _)
\* itertools.combinations(s, r), in its lexicographic order
Combinations(s, r) ==
    IF r = 0 THEN << <<>> >>
    ELSE IF Len(s) < r THEN << >>
    ELSE [k \in 1..Len(Combinations(Tail(s), r - 1)) |->
             <<Head(s)>> \o Combinations(Tail(s), r - 1)[k]]
         \o Combinations(Tail(s), r)

RECURSIVE SelectFrom(_, _, _)
SelectFrom(s, keep, i) ==
    IF i > Len(s) THEN << >>
    ELSE (IF i \in keep THEN <<s[i]>> ELSE << >>) \o SelectFrom(s, keep, i + 1)

\* filter(..., s): the elements of s at the indices keep, in order
Select(s, keep) == SelectFrom(s, keep, 1)

RECURSIVE FlattenFrom(_, _)
FlattenFrom(ss, i) == IF i > Len(ss) THEN << >> ELSE ss[i] \o FlattenFrom(ss, i + 1)

\* the concatenation of a list of lists
Flatten(ss) == FlattenFrom(ss, 1)

\* the set of the elements of a list
Range(s) == {s[i] : i \in 1..Len(s)}

\* a set of integers as the list of its elements, ascending
SetToSeq(S) ==
    [k \in 1..Cardinality(S) |-> CHOOSE x \in S : Cardinality({y \in S : y < x}) = k - 1]

(***************************************************************************)
(* Decision variables and linear constraints (pyomo.kernel variable,       *)
(* expression, constraint), kept as data.                                  *)
(***************************************************************************)
ProviderVar(id) == <<"provider", id, 0, 0>>             \* ProviderNode.var
StationVar(id) == <<"station", id, 0, 0>>               \* StationNode.var
SatelliteVar(id) == <<"satellite", id, 0, 0>>           \* SatelliteNode.var
ContactVar(id) == <<"contact", id, 0, 0>>               \* ContactNode.var
IndicatorVar(gs, sat) == <<"station_sat", gs, sat, 0>>  \* station_satellite_nodes[(gs, sat)]
NextVar(sat, i, j) == <<"next", sat, i, j>>             \* variable_dict[(sat_id, i.id, j.id)]
MaxGapVar == <<"max_gap", 0, 0, 0>>                     \* variable_dict['max_gap']

\* a term coef * var; a constant c is the term c * One, and One is 1 in every assignment
One == <<"one", 0, 0, 0>>
Term(coef, var) == [coef |-> coef, var |-> var]
Const(c) == [coef |-> c, var |-> One]

\* pk.constraint(lhs <= rhs), (lhs >= rhs), (lhs == rhs): both sides are sums of terms
Constraint(lhs, op, rhs) == [lhs |-> lhs, op |-> op, rhs |-> rhs]

RECURSIVE EvalFrom(_, _, _)
EvalFrom(terms, a, i) ==
    IF i > Len(terms) THEN 0
    ELSE (IF terms[i].var = One THEN terms[i].coef ELSE terms[i].coef * a[terms[i].var])
         + EvalFrom(terms, a, i + 1)

\* the value of a sum of terms under the assignment a
Eval(terms, a) == EvalFrom(terms, a, 1)

\* the assignment a satisfies the constraint c
Holds(c, a) ==
    LET l == Eval(c.lhs, a)
        r == Eval(c.rhs, a)
    IN  CASE c.op = "<=" -> l <= r
          [] c.op = ">=" -> l >= r
          [] c.op = "==" -> l = r

VarsOfTerms(terms) == {terms[i].var : i \in {k \in 1..Len(terms) : terms[k].var # One}}

VarsOf(cs) == UNION {VarsOfTerms(cs[i].lhs) \cup VarsOfTerms(cs[i].rhs) : i \in 1..Len(cs)}

(***************************************************************************)
(* Catalog objects (gsopt.models) and nodes (gsopt.milp_core).  A node is  *)
(* the record of its model object; its decision variable is named by the   *)
(* node's kind and id.  A dict is the sequence of its values in insertion  *)
(* order.                                                                  *)
(***************************************************************************)
None == "None"

\* str.lower() on the names and keys in use
Lower(str) ==
    CASE str = "Azure" -> "azure"
      [] str = "P1" -> "p1"
      [] str = "Svalbard" -> "svalbard"
      [] OTHER -> str

Keys(d) == {d[i].id : i \in 1..Len(d)}
HasKey(d, id) == id \in Keys(d)
Get(d, id) == d[CHOOSE i \in 1..Len(d) : d[i].id = id]

RECURSIVE DictUpdate(_, _, _)
\* d[item.id] = item for the items from index i on: an existing key keeps its place
DictUpdate(d, items, i) ==
    IF i > Len(items) THEN d
    ELSE DictUpdate(IF HasKey(d, items[i].id)
                    THEN [k \in 1..Len(d) |-> IF d[k].id = items[i].id THEN items[i] ELSE d[k]]
                    ELSE Append(d, items[i]),
                    items, i + 1)

\* Contact.t_duration
t_duration(c) == c.t_end - c.t_start

\* Contact.data_volume
data_volume(c) == c.datarate * t_duration(c)

\* OptimizationWindow.T_opt and T_sim
T_opt(w) == w.opt_end - w.opt_start
T_sim(w) == w.sim_end - w.sim_start

\* seconds in a month: 86400.0 * 365.25 / 12
SecondsPerMonth == 2629800

\* Contact.cost = cost_per_pass + t_duration / 60 * cost_per_minute, times 60
cost_x60(c) == 60 * c.cost_per_pass + t_duration(c) * c.cost_per_minute

RECURSIVE SumFrom(_, _)
SumFrom(s, i) == IF i > Len(s) THEN 0 ELSE s[i] + SumFrom(s, i + 1)

\* sum(s) of a list of numbers
Sum(s) == SumFrom(s, 1)

\* sum(coef(cn) * contact_nodes[cn.id].var for cn in cs), the coefficient being 1 or
\* datarate * t_duration
ContactSum(cs, weighted) ==
    [i \in 1..Len(cs) |->
        Term(IF weighted THEN cs[i].datarate * t_duration(cs[i]) ELSE 1, ContactVar(cs[i].id))]

(***************************************************************************)
(* Constraint components (gsopt.milp_constraints).  A component is a       *)
(* record of its parameters, its constraint list and its auxiliary         *)
(* variables; its generator returns the component as it is left, and the   *)
(* exception raised, if any.                                               *)
(***************************************************************************)
\* GSOptConstraint.__init__(**kwargs): the keyword arguments, the parameters the subclass
\* keeps and an empty constraint list
GSOptConstraint(type, value, period, step, key, kwargs) ==
    [type |-> type, value |-> value, period |-> period, step |-> step, key |-> key,
     kwargs |-> kwargs, _matched_id |-> None, constraints |-> << >>,
     variable_dict |-> {}]

\* self.name = v
SetAttr(self, name, v) ==
    [f \in DOMAIN self \cup {name} |-> IF f = name THEN v ELSE self[f]]

Constructed(self) == [self |-> self, raised |-> "none"]
Raise(exc, self) == [self |-> self, raised |-> exc]

RECURSIVE WindowStarts_strict(_, _, _, _)
\* Variant: the loop "while te < t_max".
WindowStarts_strict(ts, te, t_max, step) ==
    IF te < t_max THEN <<ts>> \o WindowStarts_strict(ts + step, te + step, t_max, step)
    ELSE << >>

RECURSIVE WindowStarts(_, _, _, _)
\* the values of ts at which the loop "while te <= t_max" runs its body
WindowStarts(ts, te, t_max, step) ==
    IF te <= t_max THEN <<ts>> \o WindowStarts(ts + step, te + step, t_max, step)
    ELSE << >>

\* Variant: the filter of a window that is open at its end.
InPeriod_halfopen(cs, ts, te) ==
    Select(cs, {i \in 1..Len(cs) : cs[i].t_end >= ts /\ cs[i].t_start < te})

\* filter(lambda cn: cn.model.t_end >= ts and cn.model.t_start <= te, contacts)
InPeriod(cs, ts, te) ==
    Select(cs, {i \in 1..Len(cs) : cs[i].t_end >= ts /\ cs[i].t_start <= te})

\* the sliding-window loop shared by the two period components
WindowConstraints(cs, w, period, step, weighted, op, value) ==
    [k \in 1..Len(WindowStarts(w.sim_start, w.sim_start + period, w.sim_end, step)) |->
        Constraint(ContactSum(InPeriod(cs,
                       WindowStarts(w.sim_start, w.sim_start + period, w.sim_end, step)[k],
                       WindowStarts(w.sim_start, w.sim_start + period, w.sim_end, step)[k]
                           + period),
                       weighted),
                   op, <<Const(value)>>)]

MinConstellationDataDownlinkConstraint(value, period, step) ==
    IF period <= 0 \/ value <= 0 \/ step <= 0
    THEN Raise("ValueError",
               GSOptConstraint("MinConstellationDataDownlinkConstraint", value, period, step, None,
                               <<value, period, step>>))
    ELSE Constructed(
               GSOptConstraint("MinConstellationDataDownlinkConstraint", value, period, step, None,
                               <<value, period, step>>))

MinConstellationDataDownlink_generate(self, inputs) ==
    Constructed([self EXCEPT !.constraints =
        @ \o WindowConstraints(SortBy(inputs.contact_nodes, "t_start"), inputs.opt_window,
                               self.period, self.step, TRUE, ">=", self.value)])

MaxContactsPerPeriodConstraint(value, period, step) ==
    IF period <= 0 \/ value <= 0 \/ step <= 0
    THEN Raise("ValueError",
               GSOptConstraint("MaxContactsPerPeriodConstraint", value, period, step, None,
                               <<value, period, step>>))
    ELSE Constructed(
               GSOptConstraint("MaxContactsPerPeriodConstraint", value, period, step, None,
                               <<value, period, step>>))

MaxContactsPerPeriod_generate(self, inputs) ==
    Constructed([self EXCEPT !.constraints =
        @ \o WindowConstraints(SortBy(inputs.contact_nodes, "t_start"), inputs.opt_window,
                               self.period, self.step, FALSE, "<=", self.value)])

\* Variant: the overlap test with both comparisons strict.
Overlap_strict(x, y) == x.t_start < y.t_end /\ y.t_start < x.t_end

\* x.model.t_start <= y.model.t_end and y.model.t_start <= x.model.t_end
Overlap(x, y) == x.t_start <= y.t_end /\ y.t_start <= x.t_end

\* Variant: the test of a combination that asks for an instant inside every contact.
AllOverlap_interior(cs) ==
    \A i, j \in 1..Len(cs) :
        i < j => (cs[i].t_start < cs[j].t_end /\ cs[j].t_start < cs[i].t_end)

\* all(... for x, y in combinations(contacts, 2))
AllOverlap(cs) == \A i, j \in 1..Len(cs) : i < j => Overlap(cs[i], cs[j])

\* Variant: one constraint per combination of antennas + 1 contacts, overlapping or not.
AntennaConstraints_all(station_contacts, antennas) ==
    [k \in 1..Len(Combinations(station_contacts, antennas + 1)) |->
        Constraint(ContactSum(Combinations(station_contacts, antennas + 1)[k], FALSE),
                   "<=", <<Const(antennas)>>)]

\* the constraints of one station: one per combination of antennas + 1 of its contacts
\* that all overlap pairwise
AntennaConstraints(station_contacts, antennas) ==
    [k \in 1..Len(Select(Combinations(station_contacts, antennas + 1),
                         {c \in 1..Len(Combinations(station_contacts, antennas + 1)) :
                             AllOverlap(Combinations(station_contacts, antennas + 1)[c])})) |->
        Constraint(ContactSum(Select(Combinations(station_contacts, antennas + 1),
                         {c \in 1..Len(Combinations(station_contacts, antennas + 1)) :
                             AllOverlap(Combinations(station_contacts, antennas + 1)[c])})[k],
                              FALSE),
                   "<=", <<Const(antennas)>>)]

MaxAntennaUsageConstraint(kwargs) ==
    Constructed(GSOptConstraint("MaxAntennaUsageConstraint", 0, 0, 0, None, kwargs))

\* Variant: the generator that emits nothing.
MaxAntennaUsage_skip(self, inputs) == Constructed(self)

MaxAntennaUsage_generate(self, inputs) ==
    Constructed([self EXCEPT !.constraints = @ \o Flatten(
        [g \in 1..Len(GroupBy(SortBy(inputs.contact_nodes, "station_id"), "station_id")) |->
            AntennaConstraints(
                SortBy(GroupBy(SortBy(inputs.contact_nodes, "station_id"), "station_id")[g],
                       "t_start"),
                Get(inputs.station_nodes,
                    GroupBy(SortBy(inputs.contact_nodes, "station_id"),
                            "station_id")[g][1].station_id).antennas)])])

\* x.var + y.var <= 1 for the pairs x, y of combinations(cs, 2) that overlap
ExclusionConstraints(cs) ==
    [k \in 1..Len(Select(Combinations(cs, 2),
                         {c \in 1..Len(Combinations(cs, 2)) :
                             Overlap(Combinations(cs, 2)[c][1], Combinations(cs, 2)[c][2])})) |->
        Constraint(ContactSum(Select(Combinations(cs, 2),
                         {c \in 1..Len(Combinations(cs, 2)) :
                             Overlap(Combinations(cs, 2)[c][1], Combinations(cs, 2)[c][2])})[k],
                              FALSE),
                   "<=", <<Const(1)>>)]

SatelliteContactExclusionConstraint(kwargs) ==
    Constructed(GSOptConstraint("SatelliteContactExclusionConstraint", 0, 0, 0, None, kwargs))

SatelliteContactExclusion_generate(self, inputs) ==
    Constructed([self EXCEPT !.constraints = @ \o Flatten(
        [g \in 1..Len(GroupBy(SortBy(inputs.contact_nodes, "str(satellite_id)"),
                              "satellite_id")) |->
            ExclusionConstraints(
                SortBy(GroupBy(SortBy(inputs.contact_nodes, "str(satellite_id)"),
                               "satellite_id")[g], "t_start"))])])

StationContactExclusionConstraint(kwargs) ==
    Constructed(GSOptConstraint("StationContactExclusionConstraint", 0, 0, 0, None, kwargs))

StationContactExclusion_generate(self, inputs) ==
    Constructed([self EXCEPT !.constraints = @ \o Flatten(
        [g \in 1..Len(GroupBy(SortBy(inputs.contact_nodes, "str(station_id)"),
                              "station_id")) |->
            ExclusionConstraints(
                SortBy(GroupBy(SortBy(inputs.contact_nodes, "str(station_id)"),
                               "station_id")[g], "t_start"))])])

\* Variant: the filter that also keeps the contacts starting where cn_i ends.
Successors_touching(sat_contacts, i) ==
    Select(sat_contacts,
           {k \in 1..Len(sat_contacts) :
               k # i /\ sat_contacts[k].t_start >= sat_contacts[i].t_end})

\* filter(lambda cn: cn.model.t_start > cn_i.model.t_end, sat_contacts)
Successors(sat_contacts, i) ==
    Select(sat_contacts,
           {k \in 1..Len(sat_contacts) : sat_contacts[k].t_start > sat_contacts[i].t_end})

\* Variant: the loop body whose last constraint is expr <= contact_nodes[cn_i.id].var.
NextContactConstraints_atmost(sat_contacts, i, bound) ==
    Flatten([j \in 1..Len(Successors(sat_contacts, i)) |->
        << Constraint(<<Term(1, NextVar(sat_contacts[1].satellite_id, sat_contacts[i].id,
                                        Successors(sat_contacts, i)[j].id))>>,
                      "<=", <<Term(1, ContactVar(sat_contacts[i].id))>>),
           Constraint(<<Term(1, NextVar(sat_contacts[1].satellite_id, sat_contacts[i].id,
                                        Successors(sat_contacts, i)[j].id))>>,
                      "<=", <<Term(1, ContactVar(Successors(sat_contacts, i)[j].id))>>),
           Constraint(<<Term(Successors(sat_contacts, i)[j].t_start - sat_contacts[i].t_end,
                             NextVar(sat_contacts[1].satellite_id, sat_contacts[i].id,
                                     Successors(sat_contacts, i)[j].id))>>,
                      "<=", bound) >>])
    \o << Constraint(<<Const(0)>> \o
                     [j \in 1..Len(Successors(sat_contacts, i)) |->
                         Term(1, NextVar(sat_contacts[1].satellite_id, sat_contacts[i].id,
                                         Successors(sat_contacts, i)[j].id))],
                     "<=", <<Term(1, ContactVar(sat_contacts[i].id))>>) >>

\* the body of the loop over cn_i: three constraints for each later contact cn_j, then
\* the constraint expr == contact_nodes[cn_i.id].var
NextContactConstraints(sat_contacts, i, bound) ==
    Flatten([j \in 1..Len(Successors(sat_contacts, i)) |->
        << Constraint(<<Term(1, NextVar(sat_contacts[1].satellite_id, sat_contacts[i].id,
                                        Successors(sat_contacts, i)[j].id))>>,
                      "<=", <<Term(1, ContactVar(sat_contacts[i].id))>>),
           Constraint(<<Term(1, NextVar(sat_contacts[1].satellite_id, sat_contacts[i].id,
                                        Successors(sat_contacts, i)[j].id))>>,
                      "<=", <<Term(1, ContactVar(Successors(sat_contacts, i)[j].id))>>),
           Constraint(<<Term(Successors(sat_contacts, i)[j].t_start - sat_contacts[i].t_end,
                             NextVar(sat_contacts[1].satellite_id, sat_contacts[i].id,
                                     Successors(sat_contacts, i)[j].id))>>,
                      "<=", bound) >>])
    \o << Constraint(<<Const(0)>> \o
                     [j \in 1..Len(Successors(sat_contacts, i)) |->
                         Term(1, NextVar(sat_contacts[1].satellite_id, sat_contacts[i].id,
                                         Successors(sat_contacts, i)[j].id))],
                     "==", <<Term(1, ContactVar(sat_contacts[i].id))>>) >>

\* Variant: the loop over sat_contacts[0:len(sat_contacts) - 2].
GapLinearization_short(sat_contacts, bound) ==
    Flatten([i \in 1..(Len(sat_contacts) - 2) |->
                NextContactConstraints(sat_contacts, i, bound)])

\* Variant: the loop over all of sat_contacts, the last contact included.
GapLinearization_whole(sat_contacts, bound) ==
    Flatten([i \in 1..Len(sat_contacts) |->
                NextContactConstraints(sat_contacts, i, bound)])

\* the loop over sat_contacts[0:len(sat_contacts) - 1] for one satellite
GapLinearization(sat_contacts, bound) ==
    Flatten([i \in 1..(Len(sat_contacts) - 1) |->
                NextContactConstraints(sat_contacts, i, bound)])

\* the loop over the satellites, with the contacts grouped by satellite
GapLinearizationAll(contact_nodes_, bound) ==
    Flatten([g \in 1..Len(GroupBy(SortBy(contact_nodes_, "satellite_id"), "satellite_id")) |->
        GapLinearization(
            SortBy(GroupBy(SortBy(contact_nodes_, "satellite_id"), "satellite_id")[g],
                   "t_start"),
            bound)])

\* the auxiliary variables the linearization creates
NextVars(cs) == {v \in VarsOf(cs) : v[1] = "next"}

MaxContactGapConstraint(value) ==
    IF value = 0
    THEN Raise("ValueError", GSOptConstraint("MaxContactGapConstraint", value, 0, 0, None, <<value>>))
    ELSE Constructed(GSOptConstraint("MaxContactGapConstraint", value, 0, 0, None, <<value>>))

MaxContactGap_generate(self, inputs) ==
    Constructed([self EXCEPT
        !.variable_dict =
            NextVars(GapLinearizationAll(inputs.contact_nodes, <<Const(self.value)>>)),
        !.constraints =
            @ \o GapLinearizationAll(inputs.contact_nodes, <<Const(self.value)>>)])

RequireProviderConstraint(key) ==
    IF key = None
    THEN Raise("ValueError", GSOptConstraint("RequireProviderConstraint", 0, 0, 0, key, <<key>>))
    ELSE Constructed(GSOptConstraint("RequireProviderConstraint", 0, 0, 0, key, <<key>>))

RECURSIVE MatchName(_, _, _, _)
\* the loop over provider_nodes.values() from index i on: the matched id it leaves, and
\* the AttributeError of None.lower()
MatchName(pns, key, i, matched) ==
    IF i > Len(pns) THEN [_matched_id |-> matched, raised |-> "none"]
    ELSE IF pns[i].name = None THEN [_matched_id |-> matched, raised |-> "AttributeError"]
    ELSE IF Lower(pns[i].name) = Lower(key)
         THEN [_matched_id |-> pns[i].id, raised |-> "none"]
    ELSE MatchName(pns, key, i + 1, matched)

\* the component after the matching, before the check of _matched_id
RequireProvider_match(self, inputs) ==
    MatchName(inputs.provider_nodes, self.key, 1,
              IF HasKey(inputs.provider_nodes, self.key) THEN self.key ELSE self._matched_id)

RequireProvider_generate(self, inputs) ==
    IF RequireProvider_match(self, inputs).raised # "none"
    THEN Raise(RequireProvider_match(self, inputs).raised,
               [self EXCEPT !._matched_id = RequireProvider_match(self, inputs)._matched_id])
    ELSE IF RequireProvider_match(self, inputs)._matched_id = None
    THEN Raise("RuntimeError", self)
    ELSE Constructed([self EXCEPT
            !._matched_id = RequireProvider_match(self, inputs)._matched_id,
            !.constraints = @ \o
                << Constraint(
                     <<Term(1, ProviderVar(RequireProvider_match(self, inputs)._matched_id))>>,
                     "==", <<Const(1)>>) >>])

\* MinSatelliteDataDownlinkConstraint.__init__; the optional satellite_key is << >> for
\* None and <<key>> for a key
MinSatelliteDataDownlinkConstraint(value, period, step, satellite_key) ==
    IF period <= 0 \/ value <= 0 \/ step <= 0
    THEN Raise("ValueError",
               GSOptConstraint("MinSatelliteDataDownlinkConstraint", value, period, step, None,
                               <<value, period, step, satellite_key>>))
    ELSE Constructed(SetAttr(
               GSOptConstraint("MinSatelliteDataDownlinkConstraint", value, period, step, None,
                               <<value, period, step, satellite_key>>),
               "satellite_key", satellite_key))

\* the contacts of the satellite sat_id, in the order of contact_nodes.values()
SatelliteContacts(cns, sat_id) ==
    Select(cns, {i \in 1..Len(cns) : cns[i].satellite_id = sat_id})

\* the ids of the satellites that have a contact
SatelliteIds(cns) == SetToSeq({cns[i].satellite_id : i \in 1..Len(cns)})

\* MinSatelliteDataDownlinkConstraint._generate_constraints: the windows of the satellite
\* the key names (by its id), or of every satellite that has a contact
MinSatelliteDataDownlink_generate(self, inputs) ==
    IF self.satellite_key # << >>
    THEN IF Len(SatelliteContacts(inputs.contact_nodes, self.satellite_key[1])) = 0
         THEN Raise("RuntimeError", self)
         ELSE Constructed([self EXCEPT !.constraints =
                 @ \o WindowConstraints(
                          SortBy(SatelliteContacts(inputs.contact_nodes, self.satellite_key[1]),
                                 "t_start"),
                          inputs.opt_window, self.period, self.step, TRUE, ">=", self.value)])
    ELSE Constructed([self EXCEPT !.constraints =
            @ \o Flatten([k \in 1..Len(SatelliteIds(inputs.contact_nodes)) |->
                     WindowConstraints(
                         SortBy(SatelliteContacts(inputs.contact_nodes,
                                                  SatelliteIds(inputs.contact_nodes)[k]),
                                "t_start"),
                         inputs.opt_window, self.period, self.step, TRUE, ">=",
                         self.value)])])

\* MaxOperationalCostConstraint.__init__: "if not value" rejects 0 (and None)
MaxOperationalCostConstraint(value) ==
    IF value = 0
    THEN Raise("ValueError",
               GSOptConstraint("MaxOperationalCostConstraint", value, 0, 0, None, <<value>>))
    ELSE Constructed(
               GSOptConstraint("MaxOperationalCostConstraint", value, 0, 0, None, <<value>>))

\* MaxOperationalCostConstraint._generate_constraints: the constraint
\*   sum(monthly_cost * sn.var) + sum(86400 * 365.25 / (12 * sim_duration) * pass cost * cn.var)
\*       <= value
\* with both sides multiplied by sim_duration; the division raises when sim_duration = 0
MaxOperationalCost_generate(self, inputs) ==
    IF T_sim(inputs.opt_window) = 0 /\ Len(inputs.contact_nodes) > 0
    THEN Raise("ZeroDivisionError", self)
    ELSE Constructed([self EXCEPT !.constraints =
            @ \o << Constraint(
                      [i \in 1..Len(inputs.station_nodes) |->
                          Term(inputs.station_nodes[i].monthly_cost * T_sim(inputs.opt_window),
                               StationVar(inputs.station_nodes[i].id))]
                      \o [i \in 1..Len(inputs.contact_nodes) |->
                          Term(SecondsPerMonth
                                 * (inputs.contact_nodes[i].cost_per_minute
                                      * t_duration(inputs.contact_nodes[i])
                                    + inputs.contact_nodes[i].cost_per_pass),
                               ContactVar(inputs.contact_nodes[i].id))],
                      "<=", <<Const(self.value * T_sim(inputs.opt_window))>>) >>])

\* MinContactDurationConstraint.__init__
MinContactDurationConstraint(min_duration) ==
    IF min_duration <= 0
    THEN Raise("ValueError",
               SetAttr(GSOptConstraint("MinContactDurationConstraint", 0, 0, 0, None,
                                       <<min_duration>>), "min_duration", min_duration))
    ELSE Constructed(
               SetAttr(GSOptConstraint("MinContactDurationConstraint", 0, 0, 0, None,
                                       <<min_duration>>), "min_duration", min_duration))

\* MinContactDurationConstraint._generate_constraints
MinContactDuration_generate(self, inputs) ==
    Constructed([self EXCEPT !.constraints =
        @ \o [k \in 1..Len(Select(inputs.contact_nodes,
                               {i \in 1..Len(inputs.contact_nodes) :
                                   t_duration(inputs.contact_nodes[i]) <= self.min_duration})) |->
                Constraint(
                    <<Term(1, ContactVar(
                        Select(inputs.contact_nodes,
                               {i \in 1..Len(inputs.contact_nodes) :
                                   t_duration(inputs.contact_nodes[i]) <= self.min_duration})[k].id))>>,
                    "==", <<Const(0)>>)]])

\* RequireStationConstraint.__init__; an optional argument is << >> for None and <<x>>
\* for x
RequireStationConstraint(id, name, provider) ==
    IF \/ id = << >> /\ (name = << >> \/ provider = << >>)
       \/ id # << >> /\ (name # << >> \/ provider # << >>)
    THEN Raise("ValueError",
               GSOptConstraint("RequireStationConstraint", 0, 0, 0, None, <<id, name, provider>>))
    ELSE Constructed(
             SetAttr(SetAttr(SetAttr(
                 GSOptConstraint("RequireStationConstraint", 0, 0, 0, None,
                                 <<id, name, provider>>),
                 "required_id", id), "required_name", name), "required_provider", provider))

\* the name of the provider of the station node sn: GroundStation.provider, which
\* GroundStationProvider.__init__ keeps equal to the provider's name
ProviderOf(sn, inputs) == Get(inputs.provider_nodes, sn.provider_id).name

RECURSIVE MatchStation(_, _, _, _)
\* the loop over station_nodes.values() from index i on: the constraint on the first
\* station of the required name and provider, the AttributeError of None.lower(), or the
\* not-found error
MatchStation(self, inputs, sns, i) ==
    IF i > Len(sns) THEN Raise("RuntimeError", self)
    ELSE IF Lower(sns[i].name) = Lower(self.required_name[1])
    THEN IF ProviderOf(sns[i], inputs) = None THEN Raise("AttributeError", self)
         ELSE IF Lower(ProviderOf(sns[i], inputs)) = Lower(self.required_provider[1])
         THEN Constructed([self EXCEPT !.constraints =
                  @ \o <<Constraint(<<Term(1, StationVar(sns[i].id))>>, "==", <<Const(1)>>)>>])
         ELSE MatchStation(self, inputs, sns, i + 1)
    ELSE MatchStation(self, inputs, sns, i + 1)

\* RequireStationConstraint._generate_constraints
RequireStation_generate(self, inputs) ==
    IF self.required_id # << >>
    THEN IF HasKey(inputs.station_nodes, self.required_id[1])
         THEN Constructed([self EXCEPT !.constraints =
                  @ \o <<Constraint(<<Term(1, StationVar(self.required_id[1]))>>, "==",
                                    <<Const(1)>>)>>])
         ELSE Raise("RuntimeError", self)
    ELSE MatchStation(self, inputs, inputs.station_nodes, 1)

\* StationNumberConstraint(minimum, maximum, provider): minimum and maximum are << >>
\* (None) or <<n>>, provider is None or a provider name
StationNumberConstraint(minimum, maximum, provider) ==
    IF minimum = << >> /\ maximum = << >>
    THEN Raise("ValueError",
               GSOptConstraint("StationNumberConstraint", 0, 0, 0, None,
                               <<minimum, maximum, provider>>))
    ELSE Constructed(
             SetAttr(SetAttr(SetAttr(
                 GSOptConstraint("StationNumberConstraint", 0, 0, 0, None,
                                 <<minimum, maximum, provider>>),
                 "minimum", minimum), "maximum", maximum), "provider", provider))

\* sum(sn.var for sn in station_nodes)
StationSum(sns) == [i \in 1..Len(sns) |-> Term(1, StationVar(sns[i].id))]

\* the stations the generator sums over: filter(...) when a provider is given, else
\* station_nodes.values()
StationsCounted(self, inputs) ==
    IF self.provider # None
    THEN Select(inputs.station_nodes,
                {i \in 1..Len(inputs.station_nodes) :
                    ProviderOf(inputs.station_nodes[i], inputs) = self.provider})
    ELSE inputs.station_nodes

\* Variant: the generator that sums the same list of stations for both bounds.
StationNumber_relisted(self, inputs) ==
    Constructed([self EXCEPT !.constraints = @
        \o (IF self.minimum # << >>
            THEN <<Constraint(StationSum(StationsCounted(self, inputs)), ">=",
                              <<Const(self.minimum[1])>>)>>
            ELSE << >>)
        \o (IF self.maximum # << >>
            THEN <<Constraint(StationSum(StationsCounted(self, inputs)), "<=",
                              <<Const(self.maximum[1])>>)>>
            ELSE << >>)])

\* filter(...) is an iterator: the sum of the minimum consumes it, and the sum of the
\* maximum that follows runs over nothing; station_nodes.values() can be summed twice
StationNumber_generate(self, inputs) ==
    Constructed([self EXCEPT !.constraints = @
        \o (IF self.minimum # << >>
            THEN <<Constraint(StationSum(StationsCounted(self, inputs)), ">=",
                              <<Const(self.minimum[1])>>)>>
            ELSE << >>)
        \o (IF self.maximum # << >>
            THEN <<Constraint(StationSum(IF self.provider # None /\ self.minimum # << >>
                                         THEN << >>
                                         ELSE StationsCounted(self, inputs)), "<=",
                              <<Const(self.maximum[1])>>)>>
            ELSE << >>)])

\* Class(*args): the constructor of the component class named
NewConstraint(class, args) ==
    CASE class = "MinConstellationDataDownlinkConstraint" ->
             MinConstellationDataDownlinkConstraint(args[1], args[2], args[3])
      [] class = "MaxContactsPerPeriodConstraint" ->
             MaxContactsPerPeriodConstraint(args[1], args[2], args[3])
      [] class = "MaxAntennaUsageConstraint" -> MaxAntennaUsageConstraint(args)
      [] class = "SatelliteContactExclusionConstraint" ->
             SatelliteContactExclusionConstraint(args)
      [] class = "StationContactExclusionConstraint" ->
             StationContactExclusionConstraint(args)
      [] class = "MaxContactGapConstraint" -> MaxContactGapConstraint(args[1])
      [] class = "RequireProviderConstraint" -> RequireProviderConstraint(args[1])
      [] class = "MinSatelliteDataDownlinkConstraint" ->
             MinSatelliteDataDownlinkConstraint(args[1], args[2], args[3], args[4])
      [] class = "MaxOperationalCostConstraint" -> MaxOperationalCostConstraint(args[1])
      [] class = "MinContactDurationConstraint" -> MinContactDurationConstraint(args[1])
      [] class = "RequireStationConstraint" ->
             RequireStationConstraint(args[1], args[2], args[3])
      [] class = "StationNumberConstraint" ->
             StationNumberConstraint(args[1], args[2], args[3])

\* constraint._generate_constraints(**inputs), by the class of the component
GenerateConstraints(self, inputs) ==
    CASE self.type = "MinConstellationDataDownlinkConstraint" ->
             MinConstellationDataDownlink_generate(self, inputs)
      [] self.type = "MaxContactsPerPeriodConstraint" ->
             MaxContactsPerPeriod_generate(self, inputs)
      [] self.type = "MaxAntennaUsageConstraint" -> MaxAntennaUsage_generate(self, inputs)
      [] self.type = "SatelliteContactExclusionConstraint" ->
             SatelliteContactExclusion_generate(self, inputs)
      [] self.type = "StationContactExclusionConstraint" ->
             StationContactExclusion_generate(self, inputs)
      [] self.type = "MaxContactGapConstraint" -> MaxContactGap_generate(self, inputs)
      [] self.type = "RequireProviderConstraint" -> RequireProvider_generate(self, inputs)
      [] self.type = "MinSatelliteDataDownlinkConstraint" ->
             MinSatelliteDataDownlink_generate(self, inputs)
      [] self.type = "MaxOperationalCostConstraint" ->
             MaxOperationalCost_generate(self, inputs)
      [] self.type = "MinContactDurationConstraint" ->
             MinContactDuration_generate(self, inputs)
      [] self.type = "RequireStationConstraint" -> RequireStation_generate(self, inputs)
      [] self.type = "StationNumberConstraint" -> StationNumber_generate(self, inputs)

(***************************************************************************)
(* Objective blocks (gsopt.milp_objectives).  The coefficients of          *)
(* MaxDataDownlinkObjective are the numerators over the common             *)
(* denominator T_sim.                                                      *)
(***************************************************************************)
\* GSOptObjective.__init__(**kwargs) with the sense the subclass sets
GSOptObjective(type, sense, kwargs) ==
    [type |-> type, sense |-> sense, kwargs |-> kwargs, expr |-> <<Const(0)>>,
     denominator |-> 1, constraints |-> << >>, variable_dict |-> {}]

\* a call without keyword arguments
NoArgs == << >>

MaxDataDownlinkObjective(kwargs) ==
    GSOptObjective("MaxDataDownlinkObjective", "maximize", kwargs)

MaxDataDownlink_generate(self, inputs) ==
    IF Len(inputs.contact_nodes) > 0 /\ T_sim(inputs.opt_window) = 0
    THEN Raise("ZeroDivisionError", self)
    ELSE Constructed([self EXCEPT
            !.denominator = IF Len(inputs.contact_nodes) > 0 THEN T_sim(inputs.opt_window) ELSE @,
            !.expr = @ \o [i \in 1..Len(inputs.contact_nodes) |->
                              Term(data_volume(inputs.contact_nodes[i]) * T_opt(inputs.opt_window),
                                   ContactVar(inputs.contact_nodes[i].id))]])

MinCostObjective(kwargs) == GSOptObjective("MinCostObjective", "minimize", kwargs)

\* the terms MinCostObjective adds for the station sn: setup cost, monthly cost
\* normalized to the optimization period, and the license cost of each of its
\* (station, satellite) indicators; all over the denominator SecondsPerMonth * T_sim
StationCostTerms(sn, inputs) ==
    << Term(sn.setup_cost * SecondsPerMonth * T_sim(inputs.opt_window), StationVar(sn.id)),
       Term(T_opt(inputs.opt_window) * sn.monthly_cost, StationVar(sn.id)) >>
    \o [k \in 1..Len(Select(inputs.station_satellite_nodes,
                            {i \in 1..Len(inputs.station_satellite_nodes) :
                                inputs.station_satellite_nodes[i].id[1] = sn.id})) |->
          Term(sn.per_satellite_license_cost * SecondsPerMonth * T_sim(inputs.opt_window),
               IndicatorVar(sn.id,
                   Select(inputs.station_satellite_nodes,
                          {i \in 1..Len(inputs.station_satellite_nodes) :
                              inputs.station_satellite_nodes[i].id[1] = sn.id})[k].id[2]))]

\* MinCostObjective._generate_objective: the numerators of the terms over the
\* denominator SecondsPerMonth * T_sim; the divisions by T_sim raise when it is 0
MinCost_generate(self, inputs) ==
    IF T_sim(inputs.opt_window) = 0
       /\ Len(inputs.station_nodes) + Len(inputs.contact_nodes) > 0
    THEN Raise("ZeroDivisionError", self)
    ELSE Constructed([self EXCEPT
            !.denominator = SecondsPerMonth * T_sim(inputs.opt_window),
            !.expr = @
                \o [i \in 1..Len(inputs.provider_nodes) |->
                       Term(inputs.provider_nodes[i].integration_cost
                              * SecondsPerMonth * T_sim(inputs.opt_window),
                            ProviderVar(inputs.provider_nodes[i].id))]
                \o Flatten([i \in 1..Len(inputs.station_nodes) |->
                       StationCostTerms(inputs.station_nodes[i], inputs)])
                \o [i \in 1..Len(inputs.contact_nodes) |->
                       Term(SecondsPerMonth * T_opt(inputs.opt_window)
                              * (t_duration(inputs.contact_nodes[i])
                                   * inputs.contact_nodes[i].cost_per_minute
                                 + inputs.contact_nodes[i].cost_per_pass),
                            ContactVar(inputs.contact_nodes[i].id))]])

MinMaxContactGapObjective(kwargs) ==
    GSOptObjective("MinMaxContactGapObjective", "minimize", kwargs)

\* Variant: the objective that creates max_gap and constrains nothing.
MinMaxContactGap_unconstrained(self, inputs) ==
    Constructed([self EXCEPT !.variable_dict = {MaxGapVar}, !.expr = <<Term(1, MaxGapVar)>>])

MinMaxContactGap_generate(self, inputs) ==
    Constructed([self EXCEPT
        !.variable_dict = {MaxGapVar} \cup
            NextVars(GapLinearizationAll(inputs.contact_nodes, <<Term(1, MaxGapVar)>>)),
        !.expr = <<Term(1, MaxGapVar)>>,
        !.constraints =
            @ \o GapLinearizationAll(inputs.contact_nodes, <<Term(1, MaxGapVar)>>)])

\* Class(**kwargs): the constructor of the objective class named
NewObjective(class, kwargs) ==
    CASE class = "MaxDataDownlinkObjective" -> MaxDataDownlinkObjective(kwargs)
      [] class = "MinMaxContactGapObjective" -> MinMaxContactGapObjective(kwargs)
      [] class = "MinCostObjective" -> MinCostObjective(kwargs)

\* self.obj_block._generate_objective(**inputs), by the class of the block
GenerateObjective(self, inputs) ==
    CASE self.type = "MaxDataDownlinkObjective" -> MaxDataDownlink_generate(self, inputs)
      [] self.type = "MinMaxContactGapObjective" -> MinMaxContactGap_generate(self, inputs)
      [] self.type = "MinCostObjective" -> MinCost_generate(self, inputs)

(***************************************************************************)
(* MilpOptimizer (gsopt.milp_optimizer).                                   *)
(***************************************************************************)
\* Variant: an indicator for every station and every satellite.
StationSatellitePairs_cross ==
    Flatten([i \in 1..Len(stations) |->
        [k \in 1..Len(satellites) |-> [id |-> <<stations[i].id, satellites[k].id>>]]])

\* the (station, satellite) pairs with at least one contact, station by station
StationSatellitePairs ==
    Flatten([i \in 1..Len(stations) |->
        [k \in 1..Cardinality({contacts[c].satellite_id :
                    c \in {d \in 1..Len(contacts) : contacts[d].station_id = stations[i].id}}) |->
            [id |-> <<stations[i].id,
                      SetToSeq({contacts[c].satellite_id :
                          c \in {d \in 1..Len(contacts) :
                                    contacts[d].station_id = stations[i].id}})[k]>>]]])

\* MilpOptimizer.generate_nodes: the node maps and the variable counts it leaves
generate_nodes ==
    [provider_nodes |-> DictUpdate(provider_nodes, providers, 1),
     station_nodes |-> DictUpdate(station_nodes, stations, 1),
     satellite_nodes |-> DictUpdate(satellite_nodes, satellites, 1),
     contact_nodes |-> DictUpdate(contact_nodes, contacts, 1),
     station_satellite_nodes |-> DictUpdate(station_satellite_nodes, StationSatellitePairs, 1),
     n_vars |-> [providers |-> n_vars.providers + Len(providers),
                 stations |-> n_vars.stations + Len(stations),
                 contacts |-> n_vars.contacts + Len(contacts),
                 satellites |-> n_vars.satellites + Len(satellites),
                 station_sat_indicators |->
                     n_vars.station_sat_indicators + Len(StationSatellitePairs)]]

\* the dict inputs of generate_problem
Inputs(nodes) ==
    [provider_nodes |-> nodes.provider_nodes, station_nodes |-> nodes.station_nodes,
     contact_nodes |-> nodes.contact_nodes, satellite_nodes |-> nodes.satellite_nodes,
     station_satellite_nodes |-> nodes.station_satellite_nodes, opt_window |-> opt_window]

\* the constraints of one station's group of contacts: the two that tie the contacts to
\* the station, then one for each satellite the station has contacts with
StationLinking(group) ==
    << Constraint(ContactSum(group, FALSE), "<=",
                  <<Term(Len(group), StationVar(group[1].station_id))>>),
       Constraint(ContactSum(group, FALSE), ">=",
                  <<Term(1, StationVar(group[1].station_id))>>) >>
    \o [g \in 1..Len(GroupBy(SortBy(group, "str(satellite_id)"), "satellite_id")) |->
          Constraint(ContactSum(GroupBy(SortBy(group, "str(satellite_id)"), "satellite_id")[g],
                                FALSE),
                     "<=",
                     <<Term(Len(GroupBy(SortBy(group, "str(satellite_id)"), "satellite_id")[g]),
                            IndicatorVar(group[1].station_id,
                                GroupBy(SortBy(group, "str(satellite_id)"),
                                        "satellite_id")[g][1].satellite_id))>>)]

\* Variant: the provider constraint with the relation reversed.
ProviderLinking_reversed(group) ==
    Constraint([i \in 1..Len(group) |-> Term(1, StationVar(group[i].id))], ">=",
               <<Term(Len(group), ProviderVar(group[1].provider_id))>>)

\* Variant: the provider constraint as an equation, which ties the provider to its
\* stations in both directions.
ProviderLinking_equal(group) ==
    Constraint([i \in 1..Len(group) |-> Term(1, StationVar(group[i].id))], "==",
               <<Term(Len(group), ProviderVar(group[1].provider_id))>>)

\* the constraint of one provider's group of stations
ProviderLinking(group) ==
    Constraint([i \in 1..Len(group) |-> Term(1, StationVar(group[i].id))], "<=",
               <<Term(Len(group), ProviderVar(group[1].provider_id))>>)

\* MilpOptimizer._generate_variable_constraints: the constraints appended to
\* self.constraints, and the number added to n_constraints (one for each station, one
\* for each station and satellite, one for each provider)
_generate_variable_constraints(inputs) ==
    [constraints |->
        Flatten([g \in 1..Len(GroupBy(SortBy(inputs.contact_nodes, "station_id"),
                                      "station_id")) |->
            StationLinking(GroupBy(SortBy(inputs.contact_nodes, "station_id"),
                                   "station_id")[g])])
        \o [g \in 1..Len(GroupBy(SortBy(inputs.station_nodes, "provider_id"),
                                 "provider_id")) |->
            ProviderLinking(GroupBy(SortBy(inputs.station_nodes, "provider_id"),
                                    "provider_id")[g])],
     n |->
        Len(Flatten([g \in 1..Len(GroupBy(SortBy(inputs.contact_nodes, "station_id"),
                                          "station_id")) |->
            Tail(StationLinking(GroupBy(SortBy(inputs.contact_nodes, "station_id"),
                                        "station_id")[g]))]))
        + Len(GroupBy(SortBy(inputs.station_nodes, "provider_id"), "provider_id"))]

RECURSIVE GenerateBlocks(_, _, _, _)
\* the loop over self.constraint_blocks from index i on: the blocks and n_constraints it
\* leaves, and the exception that ended it, if any
GenerateBlocks(blocks, i, inputs, n) ==
    IF i > Len(blocks) THEN [blocks |-> blocks, n |-> n, raised |-> "none"]
    ELSE The({ IF r.raised # "none"
               THEN [blocks |-> [blocks EXCEPT ![i] = r.self], n |-> n, raised |-> r.raised]
               ELSE GenerateBlocks([blocks EXCEPT ![i] = r.self], i + 1, inputs,
                                   n + Len(r.self.constraints)) :
               r \in {GenerateConstraints(blocks[i], inputs)} })

\* the optimizer as generate_problem leaves it, with the exception it raised, if any
Problem(exc, nodes, blocks, obj, own, n) ==
    [raised |-> exc, nodes |-> nodes, constraint_blocks |-> blocks, obj_block |-> obj,
     constraints |-> own, n_constraints |-> n]

\* generate_problem from the objective on: the objective block generates, then the
\* optimizer appends its own variable constraints
generate_problem_objective(nodes, inputs, gen) ==
    The({ IF obj.raised # "none"
          THEN Problem(obj.raised, nodes, gen.blocks, obj.self, constraints, gen.n)
          ELSE The({ Problem("none", nodes, gen.blocks, obj.self,
                             constraints \o link.constraints, gen.n + link.n) :
                     link \in {_generate_variable_constraints(inputs)} }) :
          obj \in {GenerateObjective(obj_block, inputs)} })

\* Variant: generate_problem in which the objective block generates before the
\* components.
generate_problem_objective_first(nodes, inputs) ==
    The({ IF obj.raised # "none"
          THEN Problem(obj.raised, nodes, constraint_blocks, obj.self, constraints,
                       n_constraints)
          ELSE The({ IF gen.raised # "none"
                     THEN Problem(gen.raised, nodes, gen.blocks, obj.self, constraints, gen.n)
                     ELSE The({ Problem("none", nodes, gen.blocks, obj.self,
                                        constraints \o link.constraints, gen.n + link.n) :
                                link \in {_generate_variable_constraints(inputs)} }) :
                     gen \in {GenerateBlocks(constraint_blocks, 1, inputs, n_constraints)} }) :
          obj \in {GenerateObjective(obj_block, inputs)} })

\* generate_problem from the constraint loops on: the loop over constraint_blocks, then
\* the loop over self.constraints, whose elements have no len()
generate_problem_constraints(nodes, inputs) ==
    The({ IF gen.raised # "none"
          THEN Problem(gen.raised, nodes, gen.blocks, obj_block, constraints, gen.n)
          ELSE IF Len(constraints) > 0
          THEN Problem("TypeError", nodes, gen.blocks, obj_block, constraints, gen.n)
          ELSE generate_problem_objective(nodes, inputs, gen) :
          gen \in {GenerateBlocks(constraint_blocks, 1, inputs, n_constraints)} })

\* the node maps before generate_nodes has run
CurrentNodes ==
    [provider_nodes |-> provider_nodes, station_nodes |-> station_nodes,
     satellite_nodes |-> satellite_nodes, contact_nodes |-> contact_nodes,
     station_satellite_nodes |-> station_satellite_nodes, n_vars |-> n_vars]

\* Variant: generate_problem that builds the nodes before it looks for the objective.
generate_problem_late ==
    IF ~objective_set
    THEN The({ Problem("RuntimeError", nodes, constraint_blocks, obj_block, constraints,
                       n_constraints) : nodes \in {generate_nodes} })
    ELSE The({ generate_problem_constraints(nodes, Inputs(nodes)) :
               nodes \in {generate_nodes} })

\* MilpOptimizer.generate_problem
generate_problem ==
    IF ~objective_set
    THEN Problem("RuntimeError", CurrentNodes, constraint_blocks, obj_block, constraints,
                 n_constraints)
    ELSE The({ generate_problem_constraints(nodes, Inputs(nodes)) :
               nodes \in {generate_nodes} })

\* the decision variables of the problem g: those of the nodes and the auxiliary ones
ModelVars(g) ==
    {ProviderVar(g.nodes.provider_nodes[i].id) : i \in 1..Len(g.nodes.provider_nodes)}
    \cup {StationVar(g.nodes.station_nodes[i].id) : i \in 1..Len(g.nodes.station_nodes)}
    \cup {SatelliteVar(g.nodes.satellite_nodes[i].id) : i \in 1..Len(g.nodes.satellite_nodes)}
    \cup {ContactVar(g.nodes.contact_nodes[i].id) : i \in 1..Len(g.nodes.contact_nodes)}
    \cup {IndicatorVar(g.nodes.station_satellite_nodes[i].id[1],
                       g.nodes.station_satellite_nodes[i].id[2]) :
             i \in 1..Len(g.nodes.station_satellite_nodes)}
    \cup UNION {g.constraint_blocks[i].variable_dict : i \in 1..Len(g.constraint_blocks)}
    \cup g.obj_block.variable_dict

\* every constraint of a model: those of the components, of the objective block and the
\* optimizer's own
ConstraintsOf(blocks, obj, own) ==
    Flatten([i \in 1..Len(blocks) |-> blocks[i].constraints]) \o obj.constraints \o own

AllConstraints == ConstraintsOf(constraint_blocks, obj_block, constraints)

\* the assignments of the variables R within their domains: binary, and the non-negative
\* max_gap, which need not exceed the length of the simulation window, as no gap does
Assignments(R) ==
    IF MaxGapVar \in R
    THEN {b @@ (MaxGapVar :> m) :
             b \in [R \ {MaxGapVar} -> {0, 1}], m \in 0..T_sim(opt_window)}
    ELSE [R -> {0, 1}]

\* the assignments, of the variables that some constraint or the objective expr mentions,
\* that satisfy every constraint of cs
Feasible(cs, expr) ==
    {a \in Assignments(VarsOf(cs) \cup VarsOfTerms(expr)) :
        \A i \in 1..Len(cs) : Holds(cs[i], a)}

\* get_solution(): statistics.costs.total under the variable values a, times
\* SecondsPerMonth * T_sim
total_cost(a) ==
    Sum([i \in 1..Len(provider_nodes) |->
            IF a[ProviderVar(provider_nodes[i].id)] > 0
            THEN provider_nodes[i].integration_cost * SecondsPerMonth * T_sim(opt_window)
            ELSE 0])
    + Sum([i \in 1..Len(station_nodes) |->
            IF a[StationVar(station_nodes[i].id)] > 0
            THEN station_nodes[i].setup_cost * SecondsPerMonth * T_sim(opt_window)
                 + T_opt(opt_window) * station_nodes[i].monthly_cost
            ELSE 0])
    + Sum([i \in 1..Len(station_satellite_nodes) |->
            IF a[IndicatorVar(station_satellite_nodes[i].id[1],
                              station_satellite_nodes[i].id[2])] > 0
            THEN Get(station_nodes, station_satellite_nodes[i].id[1]).per_satellite_license_cost
                 * SecondsPerMonth * T_sim(opt_window)
            ELSE 0])
    + Sum([i \in 1..Len(contact_nodes) |->
            IF a[ContactVar(contact_nodes[i].id)] > 0
            THEN T_opt(opt_window) * cost_x60(contact_nodes[i]) * (SecondsPerMonth \div 60)
            ELSE 0])

\* get_solution(): statistics.data_downlinked.total under the variable values a, times
\* T_sim
total_data_downlinked(a) ==
    T_opt(opt_window)
    * Sum([i \in 1..Len(contact_nodes) |->
              IF a[ContactVar(contact_nodes[i].id)] > 0 THEN data_volume(contact_nodes[i])
              ELSE 0])

\* get_solution(): statistics.data_downlinked.by_satellite.total[sat_id], times T_sim.
\* groupby runs over contact_nodes as inserted, and each run of one satellite assigns
\* the entry of that satellite anew, from all the contacts of the run
datavolume_by_satellite_total(sat_id) ==
    \* the last run of the satellite is the one whose value the dictionary keeps
    T_opt(opt_window)
    * Sum([i \in 1..Len(GroupBy(contact_nodes, "satellite_id")[
                  CHOOSE k \in 1..Len(GroupBy(contact_nodes, "satellite_id")) :
                      /\ GroupBy(contact_nodes, "satellite_id")[k][1].satellite_id = sat_id
                      /\ \A m \in (k + 1)..Len(GroupBy(contact_nodes, "satellite_id")) :
                            GroupBy(contact_nodes, "satellite_id")[m][1].satellite_id
                                # sat_id]) |->
              data_volume(GroupBy(contact_nodes, "satellite_id")[
                  CHOOSE k \in 1..Len(GroupBy(contact_nodes, "satellite_id")) :
                      /\ GroupBy(contact_nodes, "satellite_id")[k][1].satellite_id = sat_id
                      /\ \A m \in (k + 1)..Len(GroupBy(contact_nodes, "satellite_id")) :
                            GroupBy(contact_nodes, "satellite_id")[m][1].satellite_id
                                # sat_id][i])])

\* optimizer.set_objective(Class(**kwargs)): the objective block is constructed, then set
set_objective(class, kwargs) ==
    /\ ~objective_set
    /\ obj_block' = NewObjective(class, kwargs)
    /\ objective_set' = TRUE
    /\ raised' = "none"
    /\ UNCHANGED <<catalog_vars, provider_nodes, station_nodes, contact_nodes,
                   satellite_nodes, station_satellite_nodes, constraint_blocks, constraints,
                   n_vars, n_constraints, problem_initialized, solution, solver_status,
                   var_value, solver_calls, generations>>

\* the number of components explored on one optimizer: one more on the catalogs of at
\* most MaxResolveContacts contacts
BlockBudget == IF Len(contacts) <= MaxResolveContacts THEN MaxBlocks + 1 ELSE MaxBlocks

\* optimizer.add_constraint(Class(*args)): the constructor runs first, and a component
\* whose constructor raised is never added
add_constraint(class, args) ==
    /\ Len(constraint_blocks) < BlockBudget
    /\ generations = 0
    /\ \E constructor \in {NewConstraint(class, args)} :
        /\ constraint_blocks' = IF constructor.raised = "none"
                                THEN Append(constraint_blocks, constructor.self)
                                ELSE constraint_blocks
        /\ raised' = constructor.raised
    /\ UNCHANGED <<catalog_vars, obj_block, provider_nodes, station_nodes, contact_nodes,
                   satellite_nodes, station_satellite_nodes, constraints, n_vars,
                   n_constraints, problem_initialized, objective_set, solution,
                   solver_status, var_value, solver_calls, generations>>

\* the optimizer after generate_problem returned or raised with g
Generated(g) ==
    /\ provider_nodes' = g.nodes.provider_nodes
    /\ station_nodes' = g.nodes.station_nodes
    /\ satellite_nodes' = g.nodes.satellite_nodes
    /\ contact_nodes' = g.nodes.contact_nodes
    /\ station_satellite_nodes' = g.nodes.station_satellite_nodes
    /\ n_vars' = g.nodes.n_vars
    /\ constraint_blocks' = g.constraint_blocks
    /\ obj_block' = g.obj_block
    /\ constraints' = g.constraints
    /\ n_constraints' = g.n_constraints
    /\ generations' = IF objective_set THEN generations + 1 ELSE generations

\* the runs of generate_problem the model follows: one more on a catalog of at most
\* MaxResolveContacts contacts, where a generated problem is generated again
GenerationBudget ==
    IF Len(contacts) <= MaxResolveContacts THEN MaxGenerations + 1 ELSE MaxGenerations

\* optimizer.generate_problem() called by the user
GenerateProblem ==
    /\ generations < GenerationBudget
    /\ \E g \in {generate_problem} :
        /\ Generated(g)
        /\ raised' = g.raised
        /\ var_value' = [v \in ModelVars(g) |-> 0]
    /\ UNCHANGED <<catalog_vars, problem_initialized, objective_set, solution,
                   solver_status, solver_calls>>

\* the part of solve() after the problem is initialized: the solver runs on the model
\* (constraints cs, objective expr, variables at the values current); it writes a
\* satisfying assignment back, or reports the model infeasible, or fails with an
\* ApplicationError, which is caught
RunSolver(outcome, cs, expr, current) ==
    /\ solver_calls' = solver_calls + 1
    /\ \/ /\ outcome = "solved"
          /\ \E feasible \in {Feasible(cs, expr)} :
              \/ /\ feasible # {}
                 /\ \E a \in feasible :
                      var_value' = [v \in DOMAIN current |->
                                       IF v \in DOMAIN a THEN a[v] ELSE current[v]]
                 /\ solution' = "optimal"
                 /\ solver_status' = "optimal"
              \/ /\ feasible = {}
                 /\ solution' = "infeasible"
                 /\ solver_status' = "infeasible"
                 /\ var_value' = current
          /\ raised' = "none"
       \/ /\ outcome = "ApplicationError"
          /\ solution' = solution
          /\ var_value' = current
          /\ IF solution = None
             THEN raised' = "AttributeError" /\ solver_status' = solver_status
             ELSE raised' = "none" /\ solver_status' = solution

\* the number of solve() calls explored: one more on the catalogs of at most
\* MaxResolveContacts contacts, where a solved problem is solved again
SolveBudget == IF Len(contacts) <= MaxResolveContacts THEN MaxSolves + 1 ELSE MaxSolves

\* Variant: solve() that runs the solver on whatever generate_problem left.
Solve_partial(outcome) ==
    /\ solver_calls < SolveBudget
    /\ \/ /\ problem_initialized
          /\ RunSolver(outcome, AllConstraints, obj_block.expr, var_value)
          /\ UNCHANGED <<provider_nodes, station_nodes, contact_nodes, satellite_nodes,
                         station_satellite_nodes, constraint_blocks, constraints, n_vars,
                         n_constraints, obj_block, generations, problem_initialized>>
       \/ /\ ~problem_initialized
          /\ \E g \in {generate_problem} :
              /\ Generated(g)
              /\ problem_initialized' = TRUE
              /\ RunSolver(outcome,
                           ConstraintsOf(g.constraint_blocks, g.obj_block, g.constraints),
                           g.obj_block.expr, [v \in ModelVars(g) |-> 0])
    /\ UNCHANGED <<catalog_vars, objective_set>>

\* Variant: solve() that generates the problem on every call.
Solve_regenerate(outcome) ==
    /\ solver_calls < SolveBudget
    /\ \E g \in {generate_problem} :
        /\ Generated(g)
        /\ \/ /\ g.raised # "none"
              /\ raised' = g.raised
              /\ var_value' = [v \in ModelVars(g) |-> 0]
              /\ UNCHANGED <<problem_initialized, solution, solver_status, solver_calls>>
           \/ /\ g.raised = "none"
              /\ problem_initialized' = TRUE
              /\ RunSolver(outcome,
                           ConstraintsOf(g.constraint_blocks, g.obj_block, g.constraints),
                           g.obj_block.expr, [v \in ModelVars(g) |-> 0])
    /\ UNCHANGED <<catalog_vars, objective_set>>

\* MilpOptimizer.solve
Solve(outcome) ==
    /\ solver_calls < SolveBudget
    /\ problem_initialized \/ generations < GenerationBudget
    /\ \/ /\ problem_initialized
          /\ RunSolver(outcome, AllConstraints, obj_block.expr, var_value)
          /\ UNCHANGED <<provider_nodes, station_nodes, contact_nodes, satellite_nodes,
                         station_satellite_nodes, constraint_blocks, constraints, n_vars,
                         n_constraints, obj_block, generations, problem_initialized>>
       \/ /\ ~problem_initialized
          /\ \E g \in {generate_problem} :
              /\ Generated(g)
              /\ \/ /\ g.raised # "none"
                    /\ raised' = g.raised
                    /\ var_value' = [v \in ModelVars(g) |-> 0]
                    /\ UNCHANGED <<problem_initialized, solution, solver_status,
                                   solver_calls>>
                 \/ /\ g.raised = "none"
                    /\ problem_initialized' = TRUE
                    /\ RunSolver(outcome,
                                 ConstraintsOf(g.constraint_blocks, g.obj_block, g.constraints),
                                 g.obj_block.expr, [v \in ModelVars(g) |-> 0])
    /\ UNCHANGED <<catalog_vars, objective_set>>

(***************************************************************************)
(* Catalogs: what add_provider, add_satellite and the contact computation  *)
(* leave in the optimizer before a problem is generated.                   *)
(***************************************************************************)
\* GroundStationProvider: id and name (None when its stations carry no provider name)
Provider(id, name) == [id |-> id, name |-> name, integration_cost |-> 0]

\* the names of the stations in use
StationName(id) == IF id = 1 THEN "svalbard" ELSE "troll"

\* GroundStation: id, name, the id of its provider, antennas, costs
Station(id, provider_id, antennas) ==
    [id |-> id, name |-> StationName(id), provider_id |-> provider_id,
     antennas |-> antennas, setup_cost |-> 0,
     per_satellite_license_cost |-> 0, monthly_cost |-> 0, cost_per_pass |-> 0,
     cost_per_minute |-> 0]

\* Satellite
Satellite(id) == [id |-> id]

\* Contact: ids of its station, satellite and provider, start, end, data rate
Contact(id, station, satellite_id, t_start, t_end, datarate) ==
    [id |-> id, station_id |-> station.id, provider_id |-> station.provider_id,
     satellite_id |-> satellite_id, t_start |-> t_start, t_end |-> t_end,
     datarate |-> datarate, cost_per_pass |-> station.cost_per_pass,
     cost_per_minute |-> station.cost_per_minute]

\* the intervals [t_start, t_end] of contacts on the time grid
Intervals == {iv \in Times \X Times : iv[1] <= iv[2]}

\* OptimizationWindow with the optimization and simulation windows equal
OptimizationWindow(sim_start, sim_end) ==
    [opt_start |-> sim_start, opt_end |-> sim_end, sim_start |-> sim_start,
     sim_end |-> sim_end]

\* MilpOptimizer.__init__ and GroundStationOptimizer.__init__: everything but the catalog
Constructed0 ==
    /\ obj_block = [type |-> "block", sense |-> None, kwargs |-> << >>, expr |-> << >>,
                    denominator |-> 1, constraints |-> << >>, variable_dict |-> {}]
    /\ provider_nodes = << >> /\ station_nodes = << >> /\ contact_nodes = << >>
    /\ satellite_nodes = << >> /\ station_satellite_nodes = << >>
    /\ constraint_blocks = << >> /\ constraints = << >>
    /\ n_vars = [providers |-> 0, stations |-> 0, contacts |-> 0, satellites |-> 0,
                 station_sat_indicators |-> 0]
    /\ n_constraints = 0
    /\ problem_initialized = FALSE /\ objective_set = FALSE
    /\ solution = None /\ solver_status = "Not Solved"
    /\ var_value = << >>
    /\ solver_calls = 0 /\ generations = 0
    /\ raised = "none"

SolverOutcomes == {"solved", "ApplicationError"}

(***************************************************************************)
(* Linking: two providers, two stations, two satellites, and contacts of   *)
(* any station with any satellite, so that a station may have none.        *)
(***************************************************************************)
LinkContacts(sts) ==
    {[i \in 1..MaxContacts |-> Contact(i, sts[pick[i][1]], pick[i][2], 0, 1, 1)] :
        pick \in [1..MaxContacts -> {1, 2} \X {1, 2}]}

InitLink ==
    /\ providers = <<Provider("p1", "azure"), Provider("p2", "ksat")>>
    /\ stations \in {<<Station(1, "p1", 1), Station(2, owner, 1)>> : owner \in {"p1", "p2"}}
    /\ satellites = <<Satellite(1), Satellite(2)>>
    /\ contacts \in LinkContacts(stations)
    /\ opt_window = OptimizationWindow(0, MaxT)
    /\ Constructed0

NextLink ==
    \/ set_objective("MaxDataDownlinkObjective", NoArgs)
    \/ GenerateProblem
    \/ \E outcome \in SolverOutcomes : Solve(outcome)

SpecLink == InitLink /\ [][NextLink]_vars

\* the solver has written an assignment back: var_value satisfies every constraint
Solved == solver_status = "optimal" /\ raised = "none"

\* the contacts of the station with identifier id
ContactsOfStation(id) == {i \in 1..Len(contact_nodes) : contact_nodes[i].station_id = id}

\* C1: linking soundness.  In every assignment that satisfies the linking constraints,
\* a selected contact has its station selected, that station's provider selected, and
\* its (station, satellite) indicator set.
C1_LinkingSoundness ==
    Solved =>
        \A i \in 1..Len(contact_nodes) :
            var_value[ContactVar(contact_nodes[i].id)] = 1 =>
                /\ var_value[StationVar(contact_nodes[i].station_id)] = 1
                /\ var_value[ProviderVar(
                       Get(station_nodes, contact_nodes[i].station_id).provider_id)] = 1
                /\ var_value[IndicatorVar(contact_nodes[i].station_id,
                                          contact_nodes[i].satellite_id)] = 1

\* a solved model in which some but not all contacts of a station are selected
C1_Witness ==
    /\ Solved
    /\ \E i, j \in 1..Len(contact_nodes) :
        /\ contact_nodes[i].station_id = contact_nodes[j].station_id
        /\ var_value[ContactVar(contact_nodes[i].id)] = 1
        /\ var_value[ContactVar(contact_nodes[j].id)] = 0

\* C2: linking completeness.  In every assignment that satisfies the linking
\* constraints, every station of the station registry whose variable is 1 has a
\* selected contact, whatever number of contacts the catalog holds for it.
C2_LinkingCompleteness ==
    Solved =>
        \A s \in 1..Len(station_nodes) :
            var_value[StationVar(station_nodes[s].id)] = 1 =>
                \E i \in ContactsOfStation(station_nodes[s].id) :
                    var_value[ContactVar(contact_nodes[i].id)] = 1

(***************************************************************************)
(* Exclusion: one provider, two stations, two satellites; the contacts     *)
(* take their station, satellite and interval from small sets in which     *)
(* intervals coincide, touch at an endpoint, or are apart.                 *)
(***************************************************************************)
UnitIntervals == {iv \in Intervals : iv[2] - iv[1] = 1}

ExclusionContacts(sts) ==
    {[i \in 1..MaxContacts |->
        IF i = 1 THEN Contact(1, sts[1], 1, 1, 2, 1)
        ELSE Contact(i, sts[pick[i][1]], pick[i][2],
                     pick[i][3][1], pick[i][3][2], 1)] :
        pick \in [2..MaxContacts -> {1, 2} \X {1, 2} \X UnitIntervals]}

InitExclusion ==
    /\ providers = <<Provider("p1", "azure")>>
    /\ stations = <<Station(1, "p1", 1), Station(2, "p1", 1)>>
    /\ satellites = <<Satellite(1), Satellite(2)>>
    /\ contacts \in ExclusionContacts(stations)
    /\ opt_window = OptimizationWindow(0, MaxT)
    /\ Constructed0

NextExclusion ==
    \/ set_objective("MaxDataDownlinkObjective", NoArgs)
    \/ add_constraint("SatelliteContactExclusionConstraint", NoArgs)
    \/ add_constraint("StationContactExclusionConstraint", NoArgs)
    \/ \E outcome \in SolverOutcomes : Solve(outcome)

SpecExclusion == InitExclusion /\ [][NextExclusion]_vars

\* a component of the class type was added and has generated its constraints
Generated_(type) ==
    /\ problem_initialized
    /\ \E b \in 1..Len(constraint_blocks) : constraint_blocks[b].type = type

\* both contacts i and j are selected in the assignment written back
BothSelected(i, j) ==
    /\ var_value[ContactVar(contact_nodes[i].id)] = 1
    /\ var_value[ContactVar(contact_nodes[j].id)] = 1

\* the closed intervals of the contacts i and j have a point in common
ClosedIntervalsMeet(i, j) ==
    /\ contact_nodes[i].t_start <= contact_nodes[j].t_end
    /\ contact_nodes[j].t_start <= contact_nodes[i].t_end

\* C3: exclusion correctness.  Once the satellite (resp. station) exclusion component
\* has generated its constraints, no satisfying assignment selects two distinct contacts
\* of the same satellite (resp. station) whose closed intervals overlap; two contacts
\* that touch at a single endpoint are mutually exclusive as well.
C3_ExclusionCorrectness ==
    Solved =>
        \A i, j \in 1..Len(contact_nodes) :
            (i # j /\ ClosedIntervalsMeet(i, j) /\ BothSelected(i, j)) =>
                /\ Generated_("SatelliteContactExclusionConstraint") =>
                       contact_nodes[i].satellite_id # contact_nodes[j].satellite_id
                /\ Generated_("StationContactExclusionConstraint") =>
                       contact_nodes[i].station_id # contact_nodes[j].station_id

\* a solved model with the satellite exclusion, in which one of two contacts of a
\* satellite that touch at one endpoint is selected, and two contacts of different
\* satellites that overlap are both selected
C3_Witness ==
    /\ Solved
    /\ Generated_("SatelliteContactExclusionConstraint")
    /\ \E i, j \in 1..Len(contact_nodes) :
        /\ contact_nodes[i].satellite_id = contact_nodes[j].satellite_id
        /\ contact_nodes[i].t_end = contact_nodes[j].t_start
        /\ var_value[ContactVar(contact_nodes[i].id)] = 1
        /\ var_value[ContactVar(contact_nodes[j].id)] = 0
    /\ \E i, j \in 1..Len(contact_nodes) :
        /\ contact_nodes[i].satellite_id # contact_nodes[j].satellite_id
        /\ ClosedIntervalsMeet(i, j)
        /\ BothSelected(i, j)

(***************************************************************************)
(* Antennas: one provider, two stations of one or more antennas, one       *)
(* satellite; contacts that nest, overlap in a chain, touch or are apart.  *)
(***************************************************************************)
AntennaIntervals == {iv \in Intervals : iv[2] - iv[1] = 2} \cup {<<MaxT, MaxT>>}

AntennaContacts(sts) ==
    {[i \in 1..MaxContacts |->
        Contact(i, sts[IF i = 1 THEN 1 ELSE pick[i][1]], 1,
                pick[i][2][1], pick[i][2][2], 1)] :
        pick \in [1..MaxContacts -> {1, 2} \X AntennaIntervals]}

InitAntenna ==
    /\ providers = <<Provider("p1", "azure")>>
    /\ stations \in {<<Station(1, "p1", a), Station(2, "p1", 1)>> : a \in 1..MaxAntennas}
    /\ satellites = <<Satellite(1)>>
    /\ contacts \in AntennaContacts(stations)
    /\ opt_window = OptimizationWindow(0, MaxT)
    /\ Constructed0

NextAntenna ==
    \/ set_objective("MaxDataDownlinkObjective", NoArgs)
    \/ add_constraint("MaxAntennaUsageConstraint", NoArgs)
    \/ \E outcome \in SolverOutcomes : Solve(outcome)

SpecAntenna == InitAntenna /\ [][NextAntenna]_vars

\* the selected contacts among the set S of contacts (indices of contact_nodes)
Selected(S) == {i \in S : var_value[ContactVar(contact_nodes[i].id)] = 1}

\* C4: antenna bound.  Once MaxAntennaUsageConstraint has generated its constraints,
\* for every station and every set of antennas + 1 of its contacts that overlap
\* pairwise (closed intervals), every satisfying assignment selects at most antennas
\* contacts of the set.
C4_AntennaBound ==
    (Solved /\ Generated_("MaxAntennaUsageConstraint")) =>
        \A s \in 1..Len(station_nodes) :
            \A S \in SUBSET ContactsOfStation(station_nodes[s].id) :
                (/\ Cardinality(S) = station_nodes[s].antennas + 1
                 /\ \A i, j \in S : ClosedIntervalsMeet(i, j)) =>
                    Cardinality(Selected(S)) <= station_nodes[s].antennas

\* a solved model with the antenna component in which a station of two antennas has
\* three contacts that overlap pairwise, two of which are selected
C4_Witness ==
    /\ Solved
    /\ Generated_("MaxAntennaUsageConstraint")
    /\ \E s \in 1..Len(station_nodes) :
        /\ station_nodes[s].antennas = 2
        /\ \E S \in SUBSET ContactsOfStation(station_nodes[s].id) :
            /\ Cardinality(S) = 3
            /\ \A i, j \in S : ClosedIntervalsMeet(i, j)
            /\ Cardinality(Selected(S)) = 2

\* the contacts of the station with identifier id whose closed interval contains t
ContactsAt(id, t) ==
    {i \in ContactsOfStation(id) :
        contact_nodes[i].t_start <= t /\ t <= contact_nodes[i].t_end}

\* C5: simultaneous-contact limit.  Once MaxAntennaUsageConstraint has generated its
\* constraints, in every satisfying assignment and at every instant t, the number of
\* selected contacts of a station whose closed interval contains t is at most the
\* number of antennas of the station.
C5_SimultaneousContacts ==
    (Solved /\ Generated_("MaxAntennaUsageConstraint")) =>
        \A s \in 1..Len(station_nodes) : \A t \in Times :
            Cardinality(Selected(ContactsAt(station_nodes[s].id, t)))
                <= station_nodes[s].antennas

\* a solved model with the antenna component in which, at some instant, a station has
\* more contacts than antennas and exactly as many selected contacts as antennas
C5_Witness ==
    /\ Solved
    /\ Generated_("MaxAntennaUsageConstraint")
    /\ \E s \in 1..Len(station_nodes) : \E t \in Times :
        /\ Cardinality(ContactsAt(station_nodes[s].id, t)) > station_nodes[s].antennas
        /\ Cardinality(Selected(ContactsAt(station_nodes[s].id, t)))
               = station_nodes[s].antennas

(***************************************************************************)
(* Sliding windows: one station, one satellite, three contacts; the        *)
(* simulation window, and the value, period and step of the component,     *)
(* vary, the period up to more than the span of the window.                *)
(***************************************************************************)
WindowContacts(sts) ==
    {<<Contact(1, sts[1], 1, 0, 1, 1),
       Contact(2, sts[1], 1, 1, 3, rate),
       Contact(3, sts[1], 1, iv[1], iv[2], 1)>> :
        rate \in 1..MaxRate, iv \in UnitIntervals \cup {<<MaxT, MaxT>>}}

InitWindow ==
    /\ providers = <<Provider("p1", "azure")>>
    /\ stations = <<Station(1, "p1", 1)>>
    /\ satellites = <<Satellite(1)>>
    /\ contacts \in WindowContacts(stations)
    /\ opt_window \in {OptimizationWindow(sim_start, MaxT) : sim_start \in {0, 1}}
    /\ Constructed0

NextWindow ==
    \/ set_objective("MaxDataDownlinkObjective", NoArgs)
    \/ \E value \in 1..MaxValue, period \in 1..(MaxT + 1), step \in 1..MaxStep :
        \/ add_constraint("MinConstellationDataDownlinkConstraint", <<value, period, step>>)
        \/ add_constraint("MaxContactsPerPeriodConstraint", <<value, period, step>>)
    \/ \E outcome \in SolverOutcomes : Solve(outcome)

SpecWindow == InitWindow /\ [][NextWindow]_vars

\* the sliding-window components of the optimizer
WindowBlocks ==
    {b \in 1..Len(constraint_blocks) :
        constraint_blocks[b].type \in {"MinConstellationDataDownlinkConstraint",
                                       "MaxContactsPerPeriodConstraint"}}

\* the integers k >= 0 with sim_start + k * step + period <= sim_end
WindowIndices(period, step) ==
    {k \in 0..MaxT : opt_window.sim_start + k * step + period <= opt_window.sim_end}

Intersecting(ts, te) ==
    {i \in 1..Len(contact_nodes) :
        contact_nodes[i].t_end >= ts /\ contact_nodes[i].t_start <= te}

\* the weight of contact i in a component: 1 for the contact count, datarate * duration
\* of the whole contact for the downlink
WeightIn(b, i) ==
    IF constraint_blocks[b].type = "MaxContactsPerPeriodConstraint" THEN 1
    ELSE contact_nodes[i].datarate * (contact_nodes[i].t_end - contact_nodes[i].t_start)

\* the k-th inequality of component b sums exactly the contacts that intersect the
\* window [ts, ts + period] with ts = sim_start + (k - 1) * step, each with its weight,
\* and bounds the sum by value: from above for the contact count, from below for the
\* downlink
WindowContent(b, k) ==
    /\ Len(constraint_blocks[b].constraints[k].lhs)
           = Cardinality(Intersecting(
                 opt_window.sim_start + (k - 1) * constraint_blocks[b].step,
                 opt_window.sim_start + (k - 1) * constraint_blocks[b].step
                     + constraint_blocks[b].period))
    /\ Range(constraint_blocks[b].constraints[k].lhs)
           = {Term(WeightIn(b, i), ContactVar(contact_nodes[i].id)) :
                 i \in Intersecting(
                     opt_window.sim_start + (k - 1) * constraint_blocks[b].step,
                     opt_window.sim_start + (k - 1) * constraint_blocks[b].step
                         + constraint_blocks[b].period)}
    /\ constraint_blocks[b].constraints[k].rhs = <<Const(constraint_blocks[b].value)>>
    /\ constraint_blocks[b].constraints[k].op
           = IF constraint_blocks[b].type = "MaxContactsPerPeriodConstraint"
             THEN "<=" ELSE ">="

\* C7: sliding-window content.  For every generated window [ts, ts + period], the
\* inequality sums exactly the contacts c with c.t_end >= ts and c.t_start <= te, each
\* weighted by 1 (contact count, sum <= value) or by its whole datarate * duration
\* (downlink, sum >= value), and every satisfying assignment meets the bound of every
\* generated window.
C7_WindowContent ==
    \A b \in WindowBlocks :
        problem_initialized =>
            \A k \in 1..Len(constraint_blocks[b].constraints) :
                /\ WindowContent(b, k)
                /\ Solved => Holds(constraint_blocks[b].constraints[k], var_value)

\* a solved model with a downlink component, one window of which ends exactly where a
\* selected contact of data rate 2 and duration 2 starts, and another window of which
\* starts exactly where a contact ends
C7_Witness ==
    /\ Solved
    /\ \E b \in WindowBlocks :
        /\ constraint_blocks[b].type = "MinConstellationDataDownlinkConstraint"
        /\ \E k \in 1..Len(constraint_blocks[b].constraints) :
            \E i \in 1..Len(contact_nodes) :
                /\ contact_nodes[i].t_start
                       = opt_window.sim_start + (k - 1) * constraint_blocks[b].step
                             + constraint_blocks[b].period
                /\ contact_nodes[i].datarate = 2
                /\ contact_nodes[i].t_end - contact_nodes[i].t_start = 2
                /\ var_value[ContactVar(contact_nodes[i].id)] = 1
        /\ \E k \in 1..Len(constraint_blocks[b].constraints) :
            \E i \in 1..Len(contact_nodes) :
                contact_nodes[i].t_end
                    = opt_window.sim_start + (k - 1) * constraint_blocks[b].step

(***************************************************************************)
(* Maximum contact gap: one station, two satellites, three contacts of     *)
(* length zero or one; the bound of the component is negative, zero        *)
(* (refused by the constructor) or positive.                               *)
(***************************************************************************)
GapIntervals == UnitIntervals \cup {<<0, 0>>, <<MaxT, MaxT>>}

GapContacts(sts) ==
    {[i \in 1..MaxContacts |->
        Contact(i, sts[1], IF i = MaxContacts THEN sat ELSE 1, iv[i][1], iv[i][2], 1)] :
        iv \in [1..MaxContacts -> GapIntervals], sat \in {1, 2}}

InitGap ==
    /\ providers = <<Provider("p1", "azure")>>
    /\ stations = <<Station(1, "p1", 1)>>
    /\ satellites = <<Satellite(1), Satellite(2)>>
    /\ contacts \in GapContacts(stations)
    /\ opt_window = OptimizationWindow(0, MaxT)
    /\ Constructed0

NextGap ==
    \/ set_objective("MaxDataDownlinkObjective", NoArgs)
    \/ \E value \in (-1)..MaxValue : add_constraint("MaxContactGapConstraint", <<value>>)
    \/ \E outcome \in SolverOutcomes : Solve(outcome)

SpecGap == InitGap /\ [][NextGap]_vars

\* the contacts i and j of one satellite are both selected and consecutive in start-time
\* order among the selected contacts of that satellite: j starts no earlier than i, and
\* no other selected contact of the satellite starts strictly between them
ConsecutiveSelected(i, j) ==
    /\ i # j
    /\ contact_nodes[i].satellite_id = contact_nodes[j].satellite_id
    /\ BothSelected(i, j)
    /\ contact_nodes[i].t_start <= contact_nodes[j].t_start
    /\ \A m \in Selected(1..Len(contact_nodes)) :
        contact_nodes[m].satellite_id = contact_nodes[i].satellite_id =>
            ~(/\ contact_nodes[i].t_start < contact_nodes[m].t_start
              /\ contact_nodes[m].t_start < contact_nodes[j].t_start)

\* C8: max contact gap.  Once MaxContactGapConstraint(value = G) has generated its
\* constraints, in every satisfying assignment, for every satellite and every two
\* selected contacts of it that are consecutive in start-time order among its selected
\* contacts, next.t_start - previous.t_end <= G.
C8_MaxContactGap ==
    (Solved /\ Generated_("MaxContactGapConstraint")) =>
        \A b \in 1..Len(constraint_blocks) : \A i, j \in 1..Len(contact_nodes) :
            ConsecutiveSelected(i, j) =>
                contact_nodes[j].t_start - contact_nodes[i].t_end
                    <= constraint_blocks[b].value

\* a solved model with the gap component in which two selected contacts of a satellite
\* are exactly G apart, an unselected contact of the satellite starting between them
C8_Witness ==
    /\ Solved
    /\ Generated_("MaxContactGapConstraint")
    /\ \E i, j, m \in 1..Len(contact_nodes) :
        /\ ConsecutiveSelected(i, j)
        /\ contact_nodes[j].t_start - contact_nodes[i].t_end = constraint_blocks[1].value
        /\ constraint_blocks[1].value > 0
        /\ contact_nodes[m].satellite_id = contact_nodes[i].satellite_id
        /\ var_value[ContactVar(contact_nodes[m].id)] = 0
        /\ contact_nodes[i].t_start < contact_nodes[m].t_start
        /\ contact_nodes[m].t_start < contact_nodes[j].t_start

(***************************************************************************)
(* Min-max-gap objective: the catalogs of the gap component, and the       *)
(* catalog of one satellite with the contacts [0, 100], [500, 600] and     *)
(* [1200, 1300], in units of 100 seconds.                                  *)
(***************************************************************************)
ExampleContacts(sts) ==
    <<Contact(1, sts[1], 1, 0, 1, 1), Contact(2, sts[1], 1, 5, 6, 1),
      Contact(3, sts[1], 1, 12, 13, 1)>>

InitObjective ==
    /\ providers = <<Provider("p1", "azure")>>
    /\ stations = <<Station(1, "p1", 1)>>
    /\ satellites = <<Satellite(1), Satellite(2)>>
    /\ \/ contacts \in GapContacts(stations) /\ opt_window = OptimizationWindow(0, MaxT)
       \/ contacts = ExampleContacts(stations) /\ opt_window = OptimizationWindow(0, 13)
    /\ Constructed0

NextObjective ==
    \/ set_objective("MinMaxContactGapObjective", NoArgs)
    \/ \E outcome \in SolverOutcomes : Solve(outcome)

SpecObjective == InitObjective /\ [][NextObjective]_vars

\* the contacts of the satellite with identifier id
ContactsOfSatellite(id) ==
    {i \in 1..Len(contact_nodes) : contact_nodes[i].satellite_id = id}

\* the contacts of S are at least two and pairwise non-overlapping
Separated(S) ==
    /\ Cardinality(S) >= 2
    /\ \A i, j \in S : i # j => ~ClosedIntervalsMeet(i, j)

\* the gaps next.t_start - previous.t_end between chronologically consecutive contacts
\* of S
ConsecutiveGaps(S) ==
    {contact_nodes[j].t_start - contact_nodes[i].t_end :
        <<i, j>> \in {p \in S \X S :
            /\ contact_nodes[p[1]].t_start < contact_nodes[p[2]].t_start
            /\ \A m \in S : ~(/\ contact_nodes[p[1]].t_start < contact_nodes[m].t_start
                              /\ contact_nodes[m].t_start < contact_nodes[p[2]].t_start)}}

LargestGap(S) == CHOOSE g \in ConsecutiveGaps(S) : \A h \in ConsecutiveGaps(S) : h <= g

\* the assignments that select exactly the contacts of S, with every station, provider
\* and indicator variable 1 and max_gap = m, whatever the auxiliary variables
SelectingAll(S, m) ==
    {[v \in VarsOf(AllConstraints) \cup {MaxGapVar} |->
         CASE v = MaxGapVar -> m
           [] v[1] = "next" -> aux[v]
           [] v[1] = "contact" ->
                  IF \E i \in S : contact_nodes[i].id = v[2] THEN 1 ELSE 0
           [] OTHER -> 1] :
        aux \in [NextVars(AllConstraints) -> {0, 1}]}

\* some assignment that selects all contacts of S satisfies every constraint with
\* max_gap = m
FeasibleWith(S, m) ==
    \E a \in SelectingAll(S, m) :
        \A c \in 1..Len(AllConstraints) : Holds(AllConstraints[c], a)

\* the minimum of max_gap over the satisfying assignments that select all contacts of S
\* is m: m is feasible, and the assignment written back, when it selects all of S, has
\* max_gap >= m
MinimumIs(S, m) ==
    /\ FeasibleWith(S, m)
    /\ (Solved /\ Selected(S) = S) => var_value[MaxGapVar] >= m

\* C9: min-max-gap objective value.  With MinMaxContactGapObjective, for a satellite
\* whose contacts are pairwise non-overlapping and all selected, the minimum feasible
\* value of max_gap is the largest gap between chronologically consecutive contacts;
\* for the contacts [0, 100], [500, 600], [1200, 1300] max_gap is bounded below by 400
\* and by 600, and its minimum is exactly 600 (here 4 and 6, in units of 100 seconds).
C9_MinMaxGapValue ==
    (problem_initialized /\ obj_block.type = "MinMaxContactGapObjective") =>
        /\ \A s \in 1..Len(satellite_nodes) :
            Separated(ContactsOfSatellite(satellite_nodes[s].id)) =>
                MinimumIs(ContactsOfSatellite(satellite_nodes[s].id),
                          LargestGap(ContactsOfSatellite(satellite_nodes[s].id)))
        /\ contact_nodes = ExampleContacts(stations) =>
            /\ ConsecutiveGaps({1, 2, 3}) = {4, 6}
            /\ (Solved /\ Selected({1, 2, 3}) = {1, 2, 3}) =>
                   (var_value[MaxGapVar] >= 4 /\ var_value[MaxGapVar] >= 6)
            /\ FeasibleWith({1, 2, 3}, 6)

\* the solver returned, for the contacts [0, 100], [500, 600], [1200, 1300], the
\* assignment that selects all three with max_gap = 600
C9_Witness ==
    /\ Solved
    /\ obj_block.type = "MinMaxContactGapObjective"
    /\ contact_nodes = ExampleContacts(stations)
    /\ Selected({1, 2, 3}) = {1, 2, 3}
    /\ var_value[MaxGapVar] = 6

(***************************************************************************)
(* Required provider: one or two providers in the order they were added,   *)
(* each with one station and one contact; a provider's name is that of its *)
(* stations, None when they carry none.                                    *)
(***************************************************************************)
ProviderNames == {None, "azure", "ksat", "p1"}

ProviderKeys == {None, "Azure", "azure", "ksat", "p1", "P1", "p2"}

ProviderCatalogs ==
    {<<Provider("p1", name)>> : name \in ProviderNames}
    \cup {<<Provider(ids[1], first), Provider(ids[2], second)>> :
             ids \in {<<"p1", "p2">>, <<"p2", "p1">>},
             first \in ProviderNames, second \in ProviderNames}

InitProvider ==
    /\ providers \in ProviderCatalogs
    /\ stations = [i \in 1..Len(providers) |-> Station(i, providers[i].id, 1)]
    /\ satellites = <<Satellite(1)>>
    /\ contacts = [i \in 1..Len(stations) |->
                      Contact(i, stations[i], 1, 2 * (i - 1), 2 * (i - 1) + 1, 1)]
    /\ opt_window = OptimizationWindow(0, MaxT)
    /\ Constructed0

NextProvider ==
    \/ set_objective("MaxDataDownlinkObjective", NoArgs)
    \/ \E key \in ProviderKeys : add_constraint("RequireProviderConstraint", <<key>>)
    \/ GenerateProblem
    \/ \E outcome \in SolverOutcomes : Solve(outcome)

SpecProvider == InitProvider /\ [][NextProvider]_vars

\* the providers whose name equals key ignoring case
NameMatches(key) ==
    {i \in 1..Len(providers) :
        providers[i].name # None /\ Lower(providers[i].name) = Lower(key)}

\* the providers whose id equals key
IdMatches(key) == {i \in 1..Len(providers) : providers[i].id = key}

\* the constraint var == 1 on the variable of the provider i
Required(i) == Constraint(<<Term(1, ProviderVar(providers[i].id))>>, "==", <<Const(1)>>)

\* C10: require-provider by name.  When RequireProviderConstraint(key) generates against
\* a catalog with a provider whose name equals key ignoring case, it appends exactly one
\* constraint, which forces that provider's variable to 1; when no provider id equals
\* key and no provider name equals key ignoring case, generation raises the not-found
\* error and appends no constraint.
C10_RequireProviderByName ==
    [][(/\ generations = 0
        /\ generations' > generations
        /\ Len(constraint_blocks) = 1
        /\ constraint_blocks[1].type = "RequireProviderConstraint") =>
          /\ NameMatches(constraint_blocks[1].key) # {} =>
                \E i \in NameMatches(constraint_blocks[1].key) :
                    constraint_blocks'[1].constraints = <<Required(i)>>
          /\ (/\ NameMatches(constraint_blocks[1].key) = {}
              /\ IdMatches(constraint_blocks[1].key) = {}) =>
                /\ raised' = "RuntimeError"
                /\ constraint_blocks'[1].constraints = << >>]_vars

(***************************************************************************)
(* Parameter validation: every component that takes a value, period, step  *)
(* or min_duration, constructed with parameters of either sign.            *)
(***************************************************************************)
ValidationContacts(sts) ==
    {<<Contact(1, sts[1], 1, 0, d, 1), Contact(2, sts[1], 2, 2, MaxT, 1)>> : d \in 0..2}

InitValidation ==
    /\ providers = <<Provider("p1", "azure")>>
    /\ stations = <<[Station(1, "p1", 1) EXCEPT !.monthly_cost = 1, !.cost_per_pass = 1]>>
    /\ satellites = <<Satellite(1), Satellite(2)>>
    /\ contacts \in ValidationContacts(stations)
    /\ opt_window = OptimizationWindow(0, MaxT)
    /\ Constructed0

NextValidation ==
    \/ set_objective("MaxDataDownlinkObjective", NoArgs)
    \/ \E value \in (-1)..1, period \in (-1)..1, step \in (-1)..1 :
        \/ add_constraint("MinConstellationDataDownlinkConstraint", <<value, period, step>>)
        \/ add_constraint("MaxContactsPerPeriodConstraint", <<value, period, step>>)
        \/ \E satellite_key \in {<< >>, <<1>>} :
            add_constraint("MinSatelliteDataDownlinkConstraint",
                           <<value, period, step, satellite_key>>)
    \/ \E value \in (-1)..1 :
        \/ add_constraint("MaxContactGapConstraint", <<value>>)
        \/ add_constraint("MaxOperationalCostConstraint", <<value>>)
        \/ add_constraint("MinContactDurationConstraint", <<value>>)
    \/ GenerateProblem
    \/ \E outcome \in SolverOutcomes : Solve(outcome)

SpecValidation == InitValidation /\ [][NextValidation]_vars

\* the component b has a period, a step and a value
Windowed(b) ==
    b.type \in {"MinConstellationDataDownlinkConstraint", "MinSatelliteDataDownlinkConstraint",
                "MaxContactsPerPeriodConstraint"}

\* C11: eager parameter validation.  Every component that takes a period, step, value
\* or min_duration raises at construction when that parameter is <= 0, so that no
\* component with a non-positive such parameter ever reaches constraint generation.
C11_EagerValidation ==
    generations > 0 =>
        \A i \in 1..Len(constraint_blocks) :
            /\ Windowed(constraint_blocks[i]) =>
                   /\ constraint_blocks[i].value > 0
                   /\ constraint_blocks[i].period > 0
                   /\ constraint_blocks[i].step > 0
            /\ constraint_blocks[i].type = "MinContactDurationConstraint" =>
                   constraint_blocks[i].min_duration > 0
            /\ constraint_blocks[i].type \in
                   {"MaxContactGapConstraint", "MaxOperationalCostConstraint"} =>
                   constraint_blocks[i].value > 0

\* the node maps, the constraint lists and the counters are left as they were
GenerationUnchanged ==
    UNCHANGED <<provider_nodes, station_nodes, contact_nodes, satellite_nodes,
                station_satellite_nodes, constraint_blocks, constraints, obj_block, n_vars,
                n_constraints>>

\* C12: objective required.  generate_problem() and solve() on an optimizer without an
\* objective raise the "objective not set" error before anything is generated: the node
\* maps, every constraint list, n_vars and n_constraints are unchanged, the problem is
\* not marked as generated, and the solver is not invoked.
C12_ObjectiveRequired ==
    [][(/\ ~objective_set
        /\ GenerateProblem \/ \E outcome \in SolverOutcomes : Solve(outcome)) =>
          /\ raised' = "RuntimeError"
          /\ GenerationUnchanged
          /\ ~problem_initialized'
          /\ UNCHANGED <<solver_calls, solution, solver_status>>]_vars

\* solve() or generate_problem() raised on an optimizer that holds a component and no
\* objective
C12_Witness ==
    /\ ~objective_set
    /\ raised = "RuntimeError"
    /\ Len(constraint_blocks) > 0
    /\ ~problem_initialized

(***************************************************************************)
(* Solving again: catalogs of one contact, with or without a minimum       *)
(* contact duration, solved up to MaxSolves + 1 times.                     *)
(***************************************************************************)
ResolveContacts(sts) ==
    {<<Contact(1, sts[1], sat, iv[1], iv[2], rate)>> :
        sat \in {1, 2}, iv \in Intervals, rate \in 1..MaxRate}

InitResolve ==
    /\ providers = <<Provider("p1", "azure")>>
    /\ stations = <<Station(1, "p1", 1)>>
    /\ satellites = <<Satellite(1), Satellite(2)>>
    /\ contacts \in ResolveContacts(stations)
    /\ opt_window = OptimizationWindow(0, MaxT)
    /\ Constructed0

NextResolve ==
    \/ set_objective("MaxDataDownlinkObjective", NoArgs)
    \/ \E min_duration \in 1..MaxValue :
        add_constraint("MinContactDurationConstraint", <<min_duration>>)
    \/ \E outcome \in SolverOutcomes : Solve(outcome)

SpecResolve == InitResolve /\ [][NextResolve]_vars

C14_SolverFailureNonFatal ==
    [][(Solve("ApplicationError") /\ solver_calls' = solver_calls + 1) =>
          /\ raised' = "none"
          /\ solver_status' = solution']_vars

(***************************************************************************)
(* Lookups: components that name a provider, a station or a satellite, on  *)
(* catalogs that hold the entity named or not.  The satellite 2 has no     *)
(* contact.                                                                *)
(***************************************************************************)
LookupContacts(sts) ==
    {<<Contact(1, sts[1], 1, 0, 1, 1), Contact(2, sts[pick], 1, iv[1], iv[2], 1)>> :
        pick \in {1, 2}, iv \in Intervals}

InitLookup ==
    /\ providers \in {<<Provider("p1", name)>> : name \in {None, "azure"}}
    /\ stations = <<Station(1, "p1", 1), Station(2, "p1", 1)>>
    /\ satellites = <<Satellite(1), Satellite(2)>>
    /\ contacts \in LookupContacts(stations)
    /\ opt_window = OptimizationWindow(0, MaxT)
    /\ Constructed0

NextLookup ==
    \/ set_objective("MaxDataDownlinkObjective", NoArgs)
    \/ \E key \in {"Azure", "ksat", "p1"} : add_constraint("RequireProviderConstraint", <<key>>)
    \/ \E id \in {<< >>, <<1>>, <<3>>}, name \in {<< >>, <<"Svalbard">>, <<"troll">>, <<"ksat">>},
          provider \in {<< >>, <<"Azure">>, <<"ksat">>} :
        add_constraint("RequireStationConstraint", <<id, name, provider>>)
    \/ \E satellite_key \in {<< >>, <<1>>, <<2>>} :
        add_constraint("MinSatelliteDataDownlinkConstraint", <<1, MaxT, 1, satellite_key>>)
    \/ \E outcome \in SolverOutcomes : Solve(outcome)

SpecLookup == InitLookup /\ [][NextLookup]_vars

\* C15: lookup errors abort assembly.  When a component raises a not-found error during
\* the generate_problem() of a solve(), solve() propagates that error, the external
\* solver is not invoked in that call, and the problem is not marked as generated.
C15_LookupAborts ==
    [][(/\ objective_set
        /\ ~problem_initialized
        /\ generate_problem.raised = "RuntimeError"
        /\ \E outcome \in SolverOutcomes : Solve(outcome)) =>
          /\ raised' = "RuntimeError"
          /\ solver_calls' = solver_calls
          /\ ~problem_initialized'
          /\ UNCHANGED <<solution, solver_status>>]_vars

\* solve() raised the not-found error of a station component, and no solver ran
C15_Witness ==
    /\ raised = "RuntimeError"
    /\ objective_set
    /\ generations = 1
    /\ Len(constraint_blocks) = 1
    /\ constraint_blocks[1].type = "RequireStationConstraint"
    /\ constraint_blocks[1].constraints = << >>
    /\ solver_calls = 0
    /\ ~problem_initialized

(***************************************************************************)
(* Order of generation: one contact, up to MaxBlocks + 1 components that   *)
(* find their provider or raise, and an objective that raises when the     *)
(* simulation window is empty.                                             *)
(***************************************************************************)
InitOrder ==
    /\ providers = <<Provider("p1", "azure")>>
    /\ stations = <<Station(1, "p1", 1)>>
    /\ satellites = <<Satellite(1)>>
    /\ \E sim_end \in Times :
        /\ opt_window = OptimizationWindow(0, sim_end)
        /\ contacts \in {<<Contact(1, stations[1], 1, iv[1], iv[2], 1)>> :
                            iv \in {x \in Intervals : x[2] <= sim_end}}
    /\ Constructed0

NextOrder ==
    \/ set_objective("MaxDataDownlinkObjective", NoArgs)
    \/ \E key \in {"Azure", "ksat", "p1", "p2"} :
        add_constraint("RequireProviderConstraint", <<key>>)
    \/ GenerateProblem
    \/ \E outcome \in SolverOutcomes : Solve(outcome)

SpecOrder == InitOrder /\ [][NextOrder]_vars

\* generate_nodes has run: every entity of the catalog has its node
NodesGenerated ==
    /\ Len(provider_nodes) = Len(providers) /\ Len(station_nodes) = Len(stations)
    /\ Len(satellite_nodes) = Len(satellites) /\ Len(contact_nodes) = Len(contacts)

\* the component i has generated its constraint from the nodes
ComponentGenerated(i) ==
    /\ constraint_blocks[i]._matched_id # None
    /\ Len(constraint_blocks[i].constraints) = 1

\* the objective block has added the term of the contact to its expression
ObjectiveGenerated == Len(obj_block.expr) > 1

\* the linking generator has appended its constraints
LinkingGenerated == constraints # << >>

\* C16: generation order.  In a run of generate_problem() the nodes are generated first,
\* then the registered components in registration order, then the objective, then the
\* linking generator: the objective never generates before a component, and the linking
\* generator is last.
C16_GenerationOrder ==
    generations = 1 =>
        /\ NodesGenerated
        /\ \A i, j \in 1..Len(constraint_blocks) :
               (i < j /\ ComponentGenerated(j)) => ComponentGenerated(i)
        /\ ObjectiveGenerated => \A i \in 1..Len(constraint_blocks) : ComponentGenerated(i)
        /\ LinkingGenerated => ObjectiveGenerated
        /\ (problem_initialized \/ raised = "none") =>
               /\ \A i \in 1..Len(constraint_blocks) : ComponentGenerated(i)
               /\ ObjectiveGenerated
               /\ LinkingGenerated

\* a run in which the first component generated and the second raised: neither the
\* objective nor the linking generator ran
C16_Witness ==
    /\ generations = 1
    /\ Len(constraint_blocks) = 2
    /\ ComponentGenerated(1)
    /\ ~ComponentGenerated(2)
    /\ raised = "RuntimeError"
    /\ ~ObjectiveGenerated
    /\ ~LinkingGenerated
    /\ NodesGenerated

\* the map nodes holds exactly one node for each id of entities, the node of that entity
OneNodePerEntity(nodes, entities) ==
    /\ Keys(nodes) = Keys(entities)
    /\ Len(nodes) = Cardinality(Keys(entities))
    /\ \A i \in 1..Len(nodes) : nodes[i] = Get(entities, nodes[i].id)

\* the (station, satellite) pairs that co-occur in a contact
ContactPairs == {<<contacts[c].station_id, contacts[c].satellite_id>> : c \in 1..Len(contacts)}

\* C17: node registry shape.  After generate_nodes(), each of the provider, station,
\* satellite and contact node maps holds exactly one node per registered entity id, keyed
\* by that id, and station_satellite_nodes holds a variable for the pair (s, q) if and
\* only if some contact has station_id = s and satellite_id = q.
C17_NodeRegistryShape ==
    generations > 0 =>
        /\ OneNodePerEntity(provider_nodes, providers)
        /\ OneNodePerEntity(station_nodes, stations)
        /\ OneNodePerEntity(satellite_nodes, satellites)
        /\ OneNodePerEntity(contact_nodes, contacts)
        /\ Keys(station_satellite_nodes) = ContactPairs
        /\ Len(station_satellite_nodes) = Cardinality(ContactPairs)

\* the nodes of a catalog in which one station has contacts with both satellites and the
\* other with one of them only
C17_Witness ==
    /\ generations > 0
    /\ Len(contact_nodes) = MaxContacts
    /\ <<1, 1>> \in Keys(station_satellite_nodes)
    /\ <<1, 2>> \in Keys(station_satellite_nodes)
    /\ <<2, 1>> \in Keys(station_satellite_nodes)
    /\ <<2, 2>> \notin Keys(station_satellite_nodes)

(***************************************************************************)
(* Costs: one provider, one station and two contacts, with every cost      *)
(* either 0 or 1.                                                          *)
(***************************************************************************)
CostStations ==
    {<<[Station(1, "p1", 1) EXCEPT !.setup_cost = c[1], !.monthly_cost = c[2],
                                   !.per_satellite_license_cost = c[3],
                                   !.cost_per_pass = c[4], !.cost_per_minute = c[5]]>> :
        c \in [1..5 -> {0, 1}]}

CostContacts(sts) ==
    {<<Contact(1, sts[1], 1, 0, d, 1), Contact(2, sts[1], sat, 2, MaxT, 1)>> :
        d \in 0..1, sat \in {1, 2}}

InitCost ==
    /\ providers \in {<<[Provider("p1", "azure") EXCEPT !.integration_cost = c]>> : c \in {0, 1}}
    /\ stations \in CostStations
    /\ satellites = <<Satellite(1), Satellite(2)>>
    /\ contacts \in CostContacts(stations)
    /\ opt_window = OptimizationWindow(0, MaxT)
    /\ Constructed0

NextCost ==
    \/ set_objective("MinCostObjective", NoArgs)
    \/ GenerateProblem
    \/ \E outcome \in SolverOutcomes : Solve(outcome)

SpecCost == InitCost /\ [][NextCost]_vars

\* the variables of the nodes
NodeVars ==
    {ProviderVar(provider_nodes[i].id) : i \in 1..Len(provider_nodes)}
    \cup {StationVar(station_nodes[i].id) : i \in 1..Len(station_nodes)}
    \cup {ContactVar(contact_nodes[i].id) : i \in 1..Len(contact_nodes)}
    \cup {IndicatorVar(station_satellite_nodes[i].id[1], station_satellite_nodes[i].id[2]) :
             i \in 1..Len(station_satellite_nodes)}

\* C18: cost objective equals reported cost.  For every variable assignment, the
\* MinCostObjective expression equals the total cost that get_solution() reports for
\* that assignment.
C18_CostObjectiveIsReportedCost ==
    (generations = 1 /\ obj_block.type = "MinCostObjective" /\ Len(obj_block.expr) > 1) =>
        /\ obj_block.denominator = SecondsPerMonth * T_sim(opt_window)
        /\ \A a \in [NodeVars -> {0, 1}] : Eval(obj_block.expr, a) = total_cost(a)

\* C19: require-provider precedence.  RequireProviderConstraint resolves its key by
\* exact provider id first and by the case-insensitive name only as a fallback: when the
\* key is the id of a provider A, and also when it is, ignoring case, the name of a
\* different provider B, the emitted constraint forces the variable of A and not of B.
C19_RequireProviderPrecedence ==
    [][(/\ generations = 0
        /\ generations' > generations
        /\ Len(constraint_blocks) = 1
        /\ constraint_blocks[1].type = "RequireProviderConstraint"
        /\ IdMatches(constraint_blocks[1].key) # {}) =>
          \E i \in IdMatches(constraint_blocks[1].key) :
              constraint_blocks'[1].constraints = <<Required(i)>>]_vars

\* the sets of antennas + 1 contacts of station s that overlap pairwise
OverlappingSets(s) ==
    {S \in SUBSET ContactsOfStation(station_nodes[s].id) :
        /\ Cardinality(S) = station_nodes[s].antennas + 1
        /\ \A i, j \in S : ClosedIntervalsMeet(i, j)}

\* the constraint c is sum(var of the contacts of S) <= antennas
IsAntennaConstraint(c, S, antennas) ==
    /\ Len(c.lhs) = Cardinality(S)
    /\ \A t \in 1..Len(c.lhs) : c.lhs[t].coef = 1
    /\ VarsOfTerms(c.lhs) = {ContactVar(contact_nodes[i].id) : i \in S}
    /\ c.op = "<="
    /\ c.rhs = <<Const(antennas)>>

\* the constraints of the MaxAntennaUsageConstraint component after a generation
AntennaBlocks ==
    {b \in 1..Len(constraint_blocks) :
        /\ problem_initialized
        /\ raised = "none"
        /\ constraint_blocks[b].type = "MaxAntennaUsageConstraint"}

\* C20: antenna constraint set.  MaxAntennaUsageConstraint emits exactly one constraint
\* sum(vars) <= antennas for every set of antennas + 1 contacts of one station whose
\* members overlap pairwise, and no other constraint: none for a set with a pair that
\* does not overlap, none for contacts of different stations.  With one antenna and
\* three contacts that overlap pairwise there is one sum <= 1 per pair, so that no
\* satisfying assignment selects two of the three.
C20_AntennaConstraintSet ==
    \A b \in AntennaBlocks :
        /\ \A s \in 1..Len(station_nodes) : \A S \in OverlappingSets(s) :
              Cardinality({k \in 1..Len(constraint_blocks[b].constraints) :
                  IsAntennaConstraint(constraint_blocks[b].constraints[k], S,
                                      station_nodes[s].antennas)}) = 1
        /\ \A k \in 1..Len(constraint_blocks[b].constraints) :
              \E s \in 1..Len(station_nodes) : \E S \in OverlappingSets(s) :
                  IsAntennaConstraint(constraint_blocks[b].constraints[k], S,
                                      station_nodes[s].antennas)
        /\ \A s \in 1..Len(station_nodes) :
              (/\ station_nodes[s].antennas = 1
               /\ Cardinality(ContactsOfStation(station_nodes[s].id)) = 3
               /\ \A i, j \in ContactsOfStation(station_nodes[s].id) :
                      ClosedIntervalsMeet(i, j)) =>
                  /\ Cardinality(OverlappingSets(s)) = 3
                  /\ Solved =>
                        Cardinality(Selected(ContactsOfStation(station_nodes[s].id))) <= 1

\* a solved model in which a station of one antenna has three contacts that overlap
\* pairwise, the component holds three constraints and one contact is selected, next
\* to a generation in which some set of contacts of a station has a pair apart
C20_Witness ==
    \E b \in AntennaBlocks : \E s \in 1..Len(station_nodes) :
        /\ Solved
        /\ station_nodes[s].antennas = 1
        /\ Cardinality(ContactsOfStation(station_nodes[s].id)) = 3
        /\ \A i, j \in ContactsOfStation(station_nodes[s].id) : ClosedIntervalsMeet(i, j)
        /\ Len(constraint_blocks[b].constraints) = 3
        /\ Cardinality(Selected(ContactsOfStation(station_nodes[s].id))) = 1

\* a generation with contacts at both stations and a pair of contacts of one station
\* that do not overlap, for which no constraint is emitted
C20_WitnessApart ==
    \E b \in AntennaBlocks :
        /\ \E i, j \in 1..Len(contact_nodes) :
              contact_nodes[i].station_id # contact_nodes[j].station_id
        /\ \E i, j \in 1..Len(contact_nodes) :
              /\ i # j
              /\ contact_nodes[i].station_id = contact_nodes[j].station_id
              /\ ~ClosedIntervalsMeet(i, j)
        /\ constraint_blocks[b].constraints = << >>

\* C21: no sliding period violates the bound.  Once MaxContactsPerPeriodConstraint has
\* generated its constraints, in every satisfying assignment every interval
\* [t, t + period] with sim_start <= t and t + period <= sim_end, at any offset t and
\* not only at the multiples of step, intersects at most value selected contacts.
C21_NoSlidingPeriodViolates ==
    \A b \in WindowBlocks :
        (/\ Solved
         /\ problem_initialized
         /\ constraint_blocks[b].type = "MaxContactsPerPeriodConstraint") =>
            \A t \in Times :
                (/\ opt_window.sim_start <= t
                 /\ t + constraint_blocks[b].period <= opt_window.sim_end) =>
                    Cardinality(Selected(Intersecting(t, t + constraint_blocks[b].period)))
                        <= constraint_blocks[b].value

(***************************************************************************)
(* The max-gap linearization in both its forms: the catalogs of the        *)
(* maximum contact gap, with either objective and the gap component.       *)
(***************************************************************************)
InitTerminal == InitGap

NextTerminal ==
    \/ \E class \in {"MaxDataDownlinkObjective", "MinMaxContactGapObjective"} :
        set_objective(class, NoArgs)
    \/ \E value \in 1..MaxValue : add_constraint("MaxContactGapConstraint", <<value>>)
    \/ \E outcome \in SolverOutcomes : Solve(outcome)

SpecTerminal == InitTerminal /\ [][NextTerminal]_vars

\* the constraint lists that hold a max-gap linearization after a generation
LinearizationLists ==
    IF ~problem_initialized THEN {}
    ELSE {constraint_blocks[b].constraints :
             b \in {k \in 1..Len(constraint_blocks) :
                       constraint_blocks[k].type = "MaxContactGapConstraint"}}
         \cup (IF obj_block.type = "MinMaxContactGapObjective"
               THEN {obj_block.constraints} ELSE {})

\* contact i comes last in the start-time order of its satellite's contacts (the sort
\* is stable: contacts of equal start keep their order in contact_nodes)
LastOfSatellite(i) ==
    \A j \in ContactsOfSatellite(contact_nodes[i].satellite_id) \ {i} :
        \/ contact_nodes[j].t_start < contact_nodes[i].t_start
        \/ contact_nodes[j].t_start = contact_nodes[i].t_start /\ j < i

\* the constraints "expr == var" of contact i in the list cs
SumConstraints(cs, i) ==
    {k \in 1..Len(cs) :
        /\ cs[k].op = "=="
        /\ cs[k].rhs = <<Term(1, ContactVar(contact_nodes[i].id))>>}

\* the list cs holds the constraint 0 == var of contact i
Degenerate(cs, i) == \E k \in SumConstraints(cs, i) : cs[k].lhs = <<Const(0)>>

\* C22 as stated: the contact that is last in its satellite's start-time order is
\* subject to the constraint 0 == contact_var and is selected in no satisfying
\* assignment.
C22_TerminalNeverSelected ==
    \A cs \in LinearizationLists : \A i \in 1..Len(contact_nodes) :
        LastOfSatellite(i) =>
            /\ Degenerate(cs, i)
            /\ Solved => var_value[ContactVar(contact_nodes[i].id)] = 0

\* C22, amended: in the max-gap linearization of the constraint and of the objective,
\* the loop stops before the contact that is last in its satellite's start-time order:
\* that contact gets no constraint expr == contact_var, degenerate or not, while every
\* other contact gets exactly one.
C22_TerminalExempt ==
    \A cs \in LinearizationLists : \A i \in 1..Len(contact_nodes) :
        IF LastOfSatellite(i) THEN SumConstraints(cs, i) = {}
        ELSE Cardinality(SumConstraints(cs, i)) = 1

\* a solved model with the gap component and the min-max-gap objective in which a
\* satellite has several contacts and the last of them is selected
C22_Witness ==
    /\ Solved
    /\ Cardinality(LinearizationLists) = 2
    /\ \E i \in 1..Len(contact_nodes) :
        /\ LastOfSatellite(i)
        /\ Cardinality(ContactsOfSatellite(contact_nodes[i].satellite_id)) > 1
        /\ var_value[ContactVar(contact_nodes[i].id)] = 1

\* contact j is a successor of contact i: same satellite, starting strictly after the
\* end of i
SuccessorOf(i, j) ==
    /\ contact_nodes[j].satellite_id = contact_nodes[i].satellite_id
    /\ contact_nodes[j].t_start > contact_nodes[i].t_end

\* C28: max-gap forces the final contact.  In the max-gap linearization, every selected
\* contact that is not last in its satellite's start-time order has a selected
\* successor starting strictly after its end; so in every satisfying assignment that
\* selects a contact of a satellite, the contact that is last in that satellite's
\* start-time order is selected too.
C28_FinalContactForced ==
    (Solved /\ LinearizationLists # {}) =>
        \A i \in Selected(1..Len(contact_nodes)) :
            /\ ~LastOfSatellite(i) =>
                  \E j \in Selected(1..Len(contact_nodes)) : SuccessorOf(i, j)
            /\ \E l \in Selected(ContactsOfSatellite(contact_nodes[i].satellite_id)) :
                  LastOfSatellite(l)

\* a solved model with the linearization in which a satellite has three contacts, the
\* first and the last selected and the one between them not
C28_Witness ==
    /\ Solved
    /\ LinearizationLists # {}
    /\ \E i, m, l \in 1..Len(contact_nodes) :
        /\ {i, m, l} = ContactsOfSatellite(contact_nodes[i].satellite_id)
        /\ SuccessorOf(i, m)
        /\ SuccessorOf(m, l)
        /\ Selected({i, m, l}) = {i, l}

\* C29: max-gap excludes successor-less contacts.  In the max-gap linearization, a
\* contact that is not last in its satellite's start-time order and that no contact of
\* the satellite starts strictly after the end of gets the constraint 0 == var and is
\* unselected in every satisfying assignment.
C29_SuccessorlessExcluded ==
    \A cs \in LinearizationLists : \A i \in 1..Len(contact_nodes) :
        (/\ ~LastOfSatellite(i)
         /\ \A j \in 1..Len(contact_nodes) : ~SuccessorOf(i, j)) =>
            /\ Degenerate(cs, i)
            /\ Solved => var_value[ContactVar(contact_nodes[i].id)] = 0

\* a solved model with the linearization in which a contact ends exactly where the last
\* contact of its satellite starts, the last one being selected
C29_Witness ==
    /\ Solved
    /\ LinearizationLists # {}
    /\ \E i, l \in 1..Len(contact_nodes) :
        /\ i # l
        /\ contact_nodes[i].satellite_id = contact_nodes[l].satellite_id
        /\ LastOfSatellite(l)
        /\ contact_nodes[i].t_start < contact_nodes[i].t_end
        /\ contact_nodes[i].t_end = contact_nodes[l].t_start
        /\ var_value[ContactVar(contact_nodes[i].id)] = 0
        /\ var_value[ContactVar(contact_nodes[l].id)] = 1

\* the component b holds the constraint var == 0 of contact i
ForcedToZero(b, i) ==
    \E k \in 1..Len(constraint_blocks[b].constraints) :
        constraint_blocks[b].constraints[k]
            = Constraint(<<Term(1, ContactVar(contact_nodes[i].id))>>, "==", <<Const(0)>>)

\* C23: minimum contact duration boundary.  MinContactDurationConstraint(min_duration =
\* d) forces the variable to 0 exactly for the contacts whose duration is strictly less
\* than d; a contact whose duration equals d remains selectable.
C23_MinDurationBoundary ==
    \A b \in 1..Len(constraint_blocks) :
        (/\ problem_initialized
         /\ constraint_blocks[b].type = "MinContactDurationConstraint") =>
            \A i \in 1..Len(contact_nodes) :
                ForcedToZero(b, i)
                    <=> t_duration(contact_nodes[i]) < constraint_blocks[b].min_duration

(***************************************************************************)
(* Station count: two providers and three stations, one or two of them of  *)
(* the first provider, each with one contact; the bounds of the component  *)
(* are absent or small numbers, its provider absent or a provider's name.  *)
(***************************************************************************)
InitStations ==
    /\ providers = <<Provider("p1", "azure"), Provider("p2", "ksat")>>
    /\ stations \in {<<Station(1, "p1", 1), Station(2, owner, 1), Station(3, "p2", 1)>> :
                        owner \in {"p1", "p2"}}
    /\ satellites = <<Satellite(1)>>
    /\ contacts = [i \in 1..Len(stations) |-> Contact(i, stations[i], 1, i, i, 1)]
    /\ opt_window = OptimizationWindow(0, MaxT)
    /\ Constructed0

NextStations ==
    \/ set_objective("MaxDataDownlinkObjective", NoArgs)
    \/ \E minimum \in {<< >>} \cup {<<n>> : n \in 0..2},
          maximum \in {<< >>} \cup {<<n>> : n \in 1..2},
          provider \in {None, "azure", "ksat"} :
        add_constraint("StationNumberConstraint", <<minimum, maximum, provider>>)
    \/ \E outcome \in SolverOutcomes : Solve(outcome)

SpecStations == InitStations /\ [][NextStations]_vars

\* the stations of the provider named p, all stations when p is None
StationsOf(p) ==
    {i \in 1..Len(station_nodes) :
        p = None \/ Get(provider_nodes, station_nodes[i].provider_id).name = p}

\* the selected stations among the set S of stations (indices of station_nodes)
SelectedStations(S) == {i \in S : var_value[StationVar(station_nodes[i].id)] = 1}

\* the constraint c bounds the number of selected stations of S by n in the sense op
CountBound(c, S, op, n) ==
    /\ Len(c.lhs) = Cardinality(S)
    /\ Range(c.lhs) = {Term(1, StationVar(station_nodes[i].id)) : i \in S}
    /\ c.op = op
    /\ c.rhs = <<Const(n)>>

\* the component b, with both bounds given, holds the two bounds over the stations of
\* its provider, and the assignment written back meets them
BothBounds(b) ==
    /\ Len(constraint_blocks[b].constraints) = 2
    /\ CountBound(constraint_blocks[b].constraints[1],
                  StationsOf(constraint_blocks[b].provider), ">=",
                  constraint_blocks[b].minimum[1])
    /\ CountBound(constraint_blocks[b].constraints[2],
                  StationsOf(constraint_blocks[b].provider), "<=",
                  constraint_blocks[b].maximum[1])
    /\ Solved =>
          /\ constraint_blocks[b].minimum[1]
                 <= Cardinality(SelectedStations(StationsOf(constraint_blocks[b].provider)))
          /\ Cardinality(SelectedStations(StationsOf(constraint_blocks[b].provider)))
                 <= constraint_blocks[b].maximum[1]

\* C24: station count bounds per provider.  StationNumberConstraint(minimum = m,
\* maximum = M, provider = p) with both bounds given emits both bounds over the stations
\* of provider p only, so that every satisfying assignment selects at least m and at
\* most M stations of p; the same two bounds are enforced over all stations when no
\* provider is given.
C24_StationCountBounds ==
    \A b \in 1..Len(constraint_blocks) :
        (/\ problem_initialized
         /\ constraint_blocks[b].type = "StationNumberConstraint"
         /\ constraint_blocks[b].minimum # << >>
         /\ constraint_blocks[b].maximum # << >>) => BothBounds(b)

(***************************************************************************)
(* Per-satellite downlink: one station, two registered satellites, two     *)
(* contacts, the second of either satellite, so that the second satellite  *)
(* may have no contact at all.                                             *)
(***************************************************************************)
SatelliteCatalogs(sts) ==
    {<<Contact(1, sts[1], 1, 0, 1, rate), Contact(2, sts[1], sat, iv[1], iv[2], 1)>> :
        rate \in 1..MaxRate, sat \in {1, 2}, iv \in UnitIntervals}

InitSatellite ==
    /\ providers = <<Provider("p1", "azure")>>
    /\ stations = <<Station(1, "p1", 1)>>
    /\ satellites = <<Satellite(1), Satellite(2)>>
    /\ contacts \in SatelliteCatalogs(stations)
    /\ opt_window = OptimizationWindow(0, MaxT)
    /\ Constructed0

NextSatellite ==
    \/ set_objective("MaxDataDownlinkObjective", NoArgs)
    \/ \E value \in 1..MaxRate, period \in {2, MaxT}, step \in 1..MaxStep,
          satellite_key \in {<< >>, <<1>>, <<2>>} :
        add_constraint("MinSatelliteDataDownlinkConstraint",
                       <<value, period, step, satellite_key>>)
    \/ \E outcome \in SolverOutcomes : Solve(outcome)

SpecSatellite == InitSatellite /\ [][NextSatellite]_vars

\* the constraint c is the inequality of component b for the satellite with identifier
\* id and the window that starts at ts: the sum of datarate * duration * var over the
\* contacts of the satellite that intersect the window is at least value
SatelliteWindow(c, b, id, ts) ==
    /\ Len(c.lhs) = Cardinality(ContactsOfSatellite(id)
                                \cap Intersecting(ts, ts + constraint_blocks[b].period))
    /\ Range(c.lhs) =
           {Term(contact_nodes[i].datarate * t_duration(contact_nodes[i]),
                 ContactVar(contact_nodes[i].id)) :
               i \in ContactsOfSatellite(id)
                     \cap Intersecting(ts, ts + constraint_blocks[b].period)}
    /\ c.op = ">="
    /\ c.rhs = <<Const(constraint_blocks[b].value)>>

\* the component b holds exactly one inequality for each satellite of ids and each
\* generated window
WindowsFor(b, ids) ==
    /\ Len(constraint_blocks[b].constraints)
           = Cardinality(ids) * Cardinality(WindowIndices(constraint_blocks[b].period,
                                                          constraint_blocks[b].step))
    /\ \A id \in ids :
          \A k \in WindowIndices(constraint_blocks[b].period, constraint_blocks[b].step) :
              \E c \in Range(constraint_blocks[b].constraints) :
                  SatelliteWindow(c, b, id,
                                  opt_window.sim_start + k * constraint_blocks[b].step)

\* C25: per-satellite downlink scope.  Without a satellite_key,
\* MinSatelliteDataDownlinkConstraint emits, for every satellite registered in the
\* constellation and for every generated window, the inequality sum(datarate * duration
\* * var over that satellite's contacts intersecting the window) >= value, whether or
\* not the satellite has a contact in the catalog; with a satellite_key it emits the
\* windows of the matching satellite only, and raises a not-found error when no contact
\* matches the key.
C25_PerSatelliteScope ==
    \A b \in 1..Len(constraint_blocks) :
        (generations > 0
         /\ constraint_blocks[b].type = "MinSatelliteDataDownlinkConstraint") =>
            IF constraint_blocks[b].satellite_key = << >>
            THEN /\ problem_initialized
                 /\ WindowsFor(b, {satellites[s].id : s \in 1..Len(satellites)})
            ELSE IF ContactsOfSatellite(constraint_blocks[b].satellite_key[1]) = {}
            THEN ~problem_initialized /\ raised = "RuntimeError"
            ELSE /\ problem_initialized
                 /\ WindowsFor(b, {constraint_blocks[b].satellite_key[1]})

\* the stations of the provider with identifier id (indices of station_nodes)
StationsOfProvider(id) ==
    {s \in 1..Len(station_nodes) : station_nodes[s].provider_id = id}

\* the contacts of the (station, satellite) pair
ContactsOfPair(pair) ==
    {i \in 1..Len(contact_nodes) :
        contact_nodes[i].station_id = pair[1] /\ contact_nodes[i].satellite_id = pair[2]}

\* C26: linking asymmetry.  The linking constraints are one-directional for providers
\* and for (station, satellite) indicators: for every provider with stations there is
\* a satisfying assignment in which its variable is 1 while all its station variables
\* are 0, and for every indicator one in which it is 1 while no contact of its pair is
\* selected; the station/contact link is bidirectional: in every satisfying assignment
\* a station with contacts is selected exactly when one of its contacts is.
C26_LinkingAsymmetry ==
    problem_initialized =>
        \A F \in {Feasible(AllConstraints, obj_block.expr)} :
            /\ \A p \in 1..Len(provider_nodes) :
                  StationsOfProvider(provider_nodes[p].id) # {} =>
                      \E a \in F :
                          /\ a[ProviderVar(provider_nodes[p].id)] = 1
                          /\ \A s \in StationsOfProvider(provider_nodes[p].id) :
                                a[StationVar(station_nodes[s].id)] = 0
            /\ \A n \in 1..Len(station_satellite_nodes) :
                  \E a \in F :
                      /\ a[IndicatorVar(station_satellite_nodes[n].id[1],
                                        station_satellite_nodes[n].id[2])] = 1
                      /\ \A i \in ContactsOfPair(station_satellite_nodes[n].id) :
                            a[ContactVar(contact_nodes[i].id)] = 0
            /\ \A a \in F : \A s \in 1..Len(station_nodes) :
                  ContactsOfStation(station_nodes[s].id) # {} =>
                      (a[StationVar(station_nodes[s].id)] = 1
                          <=> \E i \in ContactsOfStation(station_nodes[s].id) :
                                  a[ContactVar(contact_nodes[i].id)] = 1)

\* the solver returned an assignment in which a provider is selected and none of its
\* stations, an indicator is set and no contact of its pair is selected, and a station
\* of another provider is selected together with one of its contacts
C26_Witness ==
    /\ Solved
    /\ \E p \in 1..Len(provider_nodes) :
        /\ StationsOfProvider(provider_nodes[p].id) # {}
        /\ var_value[ProviderVar(provider_nodes[p].id)] = 1
        /\ \A s \in StationsOfProvider(provider_nodes[p].id) :
              var_value[StationVar(station_nodes[s].id)] = 0
    /\ \E n \in 1..Len(station_satellite_nodes) :
        /\ var_value[IndicatorVar(station_satellite_nodes[n].id[1],
                                  station_satellite_nodes[n].id[2])] = 1
        /\ Selected(ContactsOfPair(station_satellite_nodes[n].id)) = {}
    /\ \E s \in 1..Len(station_nodes) :
        /\ var_value[StationVar(station_nodes[s].id)] = 1
        /\ Selected(ContactsOfStation(station_nodes[s].id)) # {}

\* the data volume of the selected contacts of the satellite with identifier id, times
\* T_opt
SelectedVolume(id) ==
    T_opt(opt_window)
    * Sum([i \in 1..Len(contact_nodes) |->
              IF i \in Selected(ContactsOfSatellite(id)) THEN data_volume(contact_nodes[i])
              ELSE 0])

\* the satellites that have a contact
SatellitesInContact == {contact_nodes[i].satellite_id : i \in 1..Len(contact_nodes)}

\* C27: per-satellite downlink report.  In the report of get_solution(),
\* statistics.data_downlinked.by_satellite.total[s] is, for every satellite s with a
\* contact and for any insertion order of the contacts, T_opt / T_sim times the data
\* volume of the selected contacts of s only, so that the per-satellite totals add up
\* to statistics.data_downlinked.total (all values times T_sim here).
C27_PerSatelliteReport ==
    Solved =>
        /\ \A id \in SatellitesInContact :
              datavolume_by_satellite_total(id) = SelectedVolume(id)
        /\ Sum([k \in 1..Len(SetToSeq(SatellitesInContact)) |->
                   datavolume_by_satellite_total(SetToSeq(SatellitesInContact)[k])])
               = total_data_downlinked(var_value)

\* no constraint occurs twice in the list cs
NoRepeat(cs) == \A k, l \in 1..Len(cs) : k < l => cs[k] # cs[l]

\* C30: generation effects applied once.  For every sequence of add_constraint,
\* set_objective, generate_problem and solve calls on one optimizer, including a
\* solve() that fails during generation and is retried and a generate_problem()
\* followed by solve(), n_vars[kind] equals the number of nodes of that kind in the
\* registry, and no constraint component's list holds a generated constraint more than
\* once.
C30_GenerationAppliedOnce ==
    /\ n_vars.providers = Len(provider_nodes)
    /\ n_vars.stations = Len(station_nodes)
    /\ n_vars.contacts = Len(contact_nodes)
    /\ n_vars.satellites = Len(satellite_nodes)
    /\ n_vars.station_sat_indicators = Len(station_satellite_nodes)
    /\ \A b \in 1..Len(constraint_blocks) : NoRepeat(constraint_blocks[b].constraints)

====
